---- MODULE Spec2Model ----
(***************************************************************************)
(* Model of the BytePS server (byteps/server/server.cc): the request       *)
(* handler (init / push / pull / config), the per-shard engine strand and  *)
(* the per-key shard counters.  One definition per function of the source; *)
(* names follow the source.                                                *)
(***************************************************************************)
EXTENDS Integers, Sequences, FiniteSets, TLC

(* ------------------------------ bounds --------------------------------- *)
\* ps::NumWorkers(): number of workers N
NumWorkers == 2
\* steps each lockstep worker runs
MaxStep == 2
\* requests the unconstrained clients may send in one run
MaxReq == 6
\* number of engine shards (BYTEPS_SERVER_ENGINE_THREAD)
engine_thread_num_ == 2

\* bits of a free pattern at each end of a written bit sequence
MaxPat == 2
\* largest number the Elias codec is given
MaxX == 9
\* numbers encoded back to back into one writer
MaxNums == 2
\* pairs of a kwargs map
MaxPairs == 2
\* largest count written in front of a config push
MaxCount == 3
\* width of int, the type of the literal 1 in BitReader::Get
IntBits == 32

Workers == 1..NumWorkers
Shards == 0..(engine_thread_num_ - 1)
\* the keys of the run; keys are independent, all per-key state is a map
Keys == {7}
\* the kwargs blobs of the config pushes, one per compressor they construct
Kwargs == {"topk", "randomk"}
\* no entry in compressor_map_
NoCompressor == "none"
\* tensors the workers push (f32 elements, all of one length)
Tensors == {<<1, 2>>, <<0, 3>>}
\* req_data.lens[0]: the byte length of a tensor of 4-byte elements
ByteLen(t) == Len(t) * 4

\* the data types of the requests
DTypes == {"f32", "f16"}

\* req_data.lens[0] of a push of t in a data type
Bytes(dtype, t) == IF dtype = "f16" THEN Len(t) * 2 ELSE ByteLen(t)
\* a null pointer / an unallocated buffer
NULL == <<>>

(* ------------------------------ state ---------------------------------- *)
VARIABLES
  sync_mode_,           \* !BYTEPS_ENABLE_ASYNC
  is_engine_blocking_,  \* BYTEPS_SERVER_ENGINE_BLOCKING
  aborted,              \* a CHECK failed or the process crashed
  store_,               \* key -> [tensor, len, dtype]
  update_buf_,          \* key -> [present, request, merged: [tensor, len, dtype]]
  fp16_copy_,           \* key -> [tensor, len, dtype]
  compressor_map_,      \* key -> the compressor installed (its kwargs), or none
  engine_queues_,       \* shard -> sequence of engine messages
  engine_msg,           \* shard -> the ALL_RECV message popped, not yet flushed
  timestamp_,           \* message counter
  is_push_finished_,    \* shard -> (partial) key -> BOOLEAN
  pull_cnt_,            \* shard -> key -> Nat
  seen_sender_,         \* shard -> key -> set of senders
  q_pull_reqmeta_,      \* shard -> key -> sequence of parked pull metas
  push_response_map_,   \* set of keys with a memoized push response
  pull_response_map_,   \* key -> [present, ptr, len]
  wstate,               \* worker -> [pc, step]: the clients
  nreq,                 \* requests sent so far by unconstrained clients
  pushsum,              \* key -> step -> sum of the pushes of that step so far
  executed,             \* key -> [copy, sum, all]: engine messages executed
  initlog,              \* key -> [n, acks]: init pushes received / acknowledged
  cfglog,               \* key -> [n, acks]: config pushes received / acknowledged
  main_pc,              \* where byteps_server() is: serving, then its cleanup
  main_i,               \* the index of its loop over the queues / the strands
  engine_alive,         \* shard -> its strand is running
  bps_reducer_,         \* the reducer exists (not deleted)
  byteps_server_,       \* the KVServer exists (not deleted)
  freed,                \* the buffers freed: <<"store", key>>, <<"fp16", key>>
  codec,                \* a BitWriter / BitReader pair at work on one input
  sync,                 \* the locks taken and released and the maps
                        \* accessed by the thread of the last step, in order
  lib,                  \* a call sequence on the compressor library: its
                        \* inputs, its position and its results
  npullresp,            \* key -> pull responses dispatched so far
  served,               \* key -> [cnt, closed]: responses per sender, this cycle
  enqlog,               \* key -> the ops enqueued since the last ALL_RECV
  ev                    \* what the last step did (requests, responses, enqueues)

vars == <<sync_mode_, is_engine_blocking_, aborted, store_, update_buf_,
          fp16_copy_, compressor_map_, engine_queues_, engine_msg, timestamp_,
          is_push_finished_, pull_cnt_, seen_sender_, q_pull_reqmeta_,
          push_response_map_, pull_response_map_, wstate, nreq, pushsum,
          executed, initlog, cfglog, npullresp, served, enqlog, ev,
          main_pc, main_i, engine_alive, bps_reducer_, byteps_server_, freed,
          codec, lib, sync>>

\* the configuration, fixed by init_global_env
envvars == <<sync_mode_, is_engine_blocking_>>
\* the handler's maps
storevars == <<store_, update_buf_, fp16_copy_, compressor_map_>>
\* byteps_server()'s own position and what its cleanup takes away
mainvars == <<main_pc, main_i, bps_reducer_, byteps_server_, freed>>
\* the engine queues
queuevars == <<engine_queues_, engine_msg, timestamp_>>
\* the shard counters guarded by flag_mu_
flagvars == <<is_push_finished_, pull_cnt_, seen_sender_, q_pull_reqmeta_>>

\* no bit codec at work (the server specifications)
NoCodec == [pc |-> "idle"]

\* no call of the compressor library under way
NoCall == [pc |-> "idle"]

(* -------------------------------- locks -------------------------------- *)
\* no step yet
NoSync == [thread |-> <<"none", 0>>, prog |-> <<>>]

\* a mutex or a map of the server: its name, and its index in its vector
\* (0 for a global)
Global(name) == <<name, 0>>

Lock(m) == [op |-> "lock", obj |-> m]
Unlock(m) == [op |-> "unlock", obj |-> m]
Access(map) == [op |-> "access", obj |-> Global(map)]
\* map[key] = value with a new key
Insert(map) == [op |-> "insert", obj |-> Global(map)]

\* { std::lock_guard<std::mutex> lock(m); body }
Locked(m, body) == <<Lock(m)>> \o body \o <<Unlock(m)>>

flag_mu_(i) == <<"flag_mu_", i>>

\* GetStore, GetUpdate, GetFP16Copy
GetStore == Locked(Global("store_mu_"), <<Access("store_")>>)
GetUpdate == Locked(Global("update_mu_"), <<Access("update_buf_")>>)
GetFP16Copy == Locked(Global("fp16_mu_"), <<Access("fp16_copy_")>>)

\* SendPullResponse: update_buf_[key] and the response map, under pullresp_mu_
PullResponseProg ==
  Locked(Global("pullresp_mu_"), <<Access("update_buf_"), Access("pull_response_map_")>>)

\* the pull that takes the shard's flag lock inside SendPullResponse
PullProg_FlagInside(tid, blocking, servable) ==
  IF blocking THEN PullResponseProg
  ELSE Locked(Global("pullresp_mu_"), Locked(flag_mu_(tid), <<Access("update_buf_")>>))

\* BytePSHandlePull after its first CHECK: the response at once in blocking
\* or async mode, else the shard's bookkeeping under flag_mu_[tid], with the
\* response inside when the pull is servable
PullProg(tid, blocking, servable) ==
  IF blocking THEN PullResponseProg
  ELSE Locked(flag_mu_(tid), IF servable THEN PullResponseProg ELSE <<>>)

(* ------------------------------ helpers -------------------------------- *)
\* ps::KVMeta of a request: sender, push flag, request type, dtype
Meta(w, push, rtype) ==
  [sender |-> w, push |-> push, rtype |-> rtype, dtype |-> "f32"]

NoMeta == [sender |-> 0, push |-> FALSE, rtype |-> "none", dtype |-> "f32"]

NoArray == [tensor |-> NULL, len |-> 0, dtype |-> "none"]

NoEvent == [op |-> "none", key |-> 0, req |-> NoMeta, recved |-> NULL,
            acked |-> <<>>, pulled |-> <<>>, enq |-> <<>>, peak |-> 0]

\* CpuReducer::sum: dst += src, elementwise
sum(dst, src) == [i \in 1..Len(dst) |-> dst[i] + src[i]]

\* CpuReducer::copy: byte copy of src
copy(src) == src

\* PageAlignedMalloc: a fresh buffer, zero filled
PageAlignedMalloc(len) == [i \in 1..(len \div 4) |-> 0]

\* GetThreadID: the shard of a key; every message of a key goes to one shard
GetThreadID(key) == key % engine_thread_num_


\* the buffer a merged / response pointer refers to
Deref(key, ptr) ==
  IF ptr = "stored" THEN store_[key].tensor
  ELSE IF ptr = "fp16" THEN fp16_copy_[key].tensor
  ELSE NULL

\* BytePSEngineMessage
Msg(ts, key, ops, src, len, meta, mixed) ==
  [timestamp |-> ts, key |-> key, ops |-> ops, src |-> src, len |-> len,
   sender |-> meta.sender, mixed_precision |-> mixed]

NoMsg == [timestamp |-> 0, key |-> 0, ops |-> "NONE", src |-> NULL, len |-> 0,
          sender |-> 0, mixed_precision |-> FALSE]

\* the ALL_RECV of a step pushed to the next shard's queue
QueuePush_OtherShard(queues, tid, msg) ==
  LET to == IF msg.ops = "ALL_RECV" THEN (tid + 1) % engine_thread_num_
            ELSE tid
  IN [queues EXCEPT ![to] = Append(@, msg)]

\* the sentinel byteps_server() pushes at shutdown
TerminateMsg == [NoMsg EXCEPT !.ops = "TERMINATE"]

\* PriorityQueue::Push on shard tid (FIFO: enable_schedule_ is off)
QueuePush(queues, tid, msg) == [queues EXCEPT ![tid] = Append(@, msg)]

\* what a worker does on a response to its outstanding request
Deliver(st, kind) ==
  IF st.pc = "initwait" /\ kind = "push" THEN [pc |-> "push", step |-> 1]
  ELSE IF st.pc = "pushwait" /\ kind = "push" THEN [st EXCEPT !.pc = "pull"]
  ELSE IF st.pc = "pullwait" /\ kind = "pull"
    THEN IF st.step < MaxStep THEN [pc |-> "push", step |-> st.step + 1]
         ELSE [st EXCEPT !.pc = "done"]
  ELSE st

\* the workers after the responses of one step were delivered
DeliverAll(ws, acked, pulled) ==
  [w \in Workers |->
     IF \E i \in DOMAIN acked : acked[i].sender = w THEN Deliver(ws[w], "push")
     ELSE IF \E i \in DOMAIN pulled : pulled[i].sender = w
       THEN Deliver(ws[w], "pull")
     ELSE ws[w]]

\* the responses each sender got in the current cycle of the shard counters;
\* the cycle is closed by the response after which the counters are reset
Served(key, pulled, cnt) ==
  LET base == IF served[key].closed THEN [w \in Workers |-> 0]
              ELSE served[key].cnt
      got(w) == Cardinality({i \in DOMAIN pulled : pulled[i].sender = w})
  IN IF pulled = <<>> THEN served
     ELSE [served EXCEPT ![key] = [cnt |-> [w \in Workers |-> base[w] + got(w)],
                                  closed |-> cnt = 0]]

\* a CHECK failed (or the process crashed): the server is gone
Abort(op, key, meta) ==
  /\ aborted' = TRUE
  /\ ev' = [NoEvent EXCEPT !.op = op, !.key = key, !.req = meta]
  /\ UNCHANGED <<storevars, queuevars, flagvars, push_response_map_,
                 pull_response_map_, initlog>>

\* the record of one pull response: what it carries when it is dispatched
PullResp(key, meta, merged, ex) ==
  [key |-> key, sender |-> meta.sender, step |-> wstate[meta.sender].step,
   ptr |-> merged.tensor, len |-> merged.len,
   vals |-> Deref(key, merged.tensor), exec |-> ex]

\* SendPullResponse's CHECK(updates.merged.tensor)
PullResponseReady(key) == update_buf_[key].merged.tensor # "null"

\* SendPullResponse: memoize the response shell of the key
SendPullResponse(map, key) ==
  [map EXCEPT ![key] = [present |-> TRUE,
                        ptr |-> update_buf_[key].merged.tensor,
                        len |-> update_buf_[key].merged.len]]

\* should send response after collecting all init / config pushes
Collected(request) == Len(request) >= NumWorkers

\* the ghost count of init pushes and of their acknowledgements
InitLog(key, isInit, acked) ==
  LET nack == Cardinality({i \in DOMAIN acked :
                             /\ acked[i].rtype = "default"
                             /\ store_[key].tensor = NULL})
  IN [initlog EXCEPT ![key] = [n |-> @.n + (IF isInit THEN 1 ELSE 0),
                              acks |-> @.acks + nack]]

\* the lookup that never finds the key's compressor
Registered_Never(key) == FALSE

\* compressor_map_.find(key) != compressor_map_.end()
Registered(key) == compressor_map_[key] # NoCompressor

\* BytePSHandleConfigReq; req_data carries the serialized kwargs
BytePSHandleConfigReq(key, meta, req_data) ==
  LET updates == update_buf_[key]
      request == Append(updates.request, meta)
      done == Collected(request)
  IN /\ compressor_map_' =
           IF Registered(key) THEN compressor_map_
           ELSE [compressor_map_ EXCEPT ![key] = req_data]
     /\ update_buf_' = [update_buf_ EXCEPT
           ![key] = [@ EXCEPT !.present = TRUE,
                              !.request = IF done THEN <<>> ELSE request]]
     /\ push_response_map_' =
           IF done THEN push_response_map_ \cup {key} ELSE push_response_map_
     /\ ev' = [NoEvent EXCEPT !.op = "config", !.key = key, !.req = meta,
                              !.recved = req_data,
                              !.acked = IF done THEN request ELSE <<>>,
                              !.peak = Len(request)]
     /\ initlog' = InitLog(key, FALSE, IF done THEN request ELSE <<>>)
     /\ UNCHANGED <<aborted, store_, fp16_copy_, queuevars, flagvars,
                    pull_response_map_>>

\* BytePSHanleInit
BytePSHanleInit(key, meta, len) ==
  LET mixed_precision == meta.dtype = "f16"
      updates == update_buf_[key]
      merged == IF sync_mode_ /\ ~updates.present
                  THEN [updates.merged EXCEPT !.len = len, !.dtype = meta.dtype]
                  ELSE updates.merged
      request == Append(updates.request, meta)
      done == Collected(request)
      \* common::Promote(len, dtype): f16 is reduced in f32
      plen == IF mixed_precision THEN 2 * len ELSE len
      pdtype == IF mixed_precision THEN "f32" ELSE meta.dtype
  IN /\ update_buf_' = [update_buf_ EXCEPT
           ![key] = [present |-> TRUE, merged |-> merged,
                     request |-> IF done THEN <<>> ELSE request]]
     /\ fp16_copy_' =
           IF done /\ mixed_precision
             THEN [fp16_copy_ EXCEPT ![key] =
                     [tensor |-> PageAlignedMalloc(2 * len), len |-> len,
                      dtype |-> meta.dtype]]
             ELSE fp16_copy_
     /\ store_' =
           IF done
             THEN [store_ EXCEPT ![key] =
                     [tensor |-> PageAlignedMalloc(plen), len |-> plen,
                      dtype |-> pdtype]]
             ELSE store_
     /\ push_response_map_' =
           IF done THEN push_response_map_ \cup {key} ELSE push_response_map_
     /\ ev' = [NoEvent EXCEPT !.op = "init", !.key = key, !.req = meta,
                              !.acked = IF done THEN request ELSE <<>>,
                              !.peak = Len(request)]
     /\ initlog' = InitLog(key, TRUE, IF done THEN request ELSE <<>>)
     /\ UNCHANGED <<aborted, compressor_map_, queuevars, flagvars,
                    pull_response_map_>>


\* line 337: the request comes from the first incoming worker of the step
FirstWorker(updates) == updates.request = <<>>

\* the seal one push late
AllReceived_OneLate(request) == sync_mode_ /\ Len(request) = NumWorkers + 1

\* line 387: all workers of the step have pushed
AllReceived(request) == sync_mode_ /\ Len(request) = NumWorkers

\* BytePSHandlePush
BytePSHandlePush(key, meta, recved, len) ==
  LET mixed_precision == meta.dtype = "f16"
      updates == update_buf_[key]
      stored == store_[key]
      tid == GetThreadID(key)
      first == FirstWorker(updates)
      enqueue == sync_mode_ /\ (first \/ ~is_engine_blocking_)
      ops == IF first THEN "COPY_FIRST" ELSE "SUM_RECV"
      queue1 == IF enqueue
                  THEN QueuePush(engine_queues_, tid,
                         Msg(timestamp_, key, ops, recved, len, meta,
                             mixed_precision))
                  ELSE engine_queues_
      ts1 == IF enqueue THEN timestamp_ + 1 ELSE timestamp_
      \* the buffer the handler itself sums into
      inline == IF first THEN "stored" ELSE updates.merged.tensor
      tensor1 == IF ~enqueue /\ inline = "stored"
                   THEN sum(stored.tensor, recved)
                   ELSE stored.tensor
      request == Append(updates.request, meta)
      seal == AllReceived(request)
      queue2 == IF seal /\ ~is_engine_blocking_
                  THEN QueuePush(queue1, tid,
                         Msg(ts1, key, "ALL_RECV", NULL, stored.len, meta,
                             mixed_precision))
                  ELSE queue1
      ts2 == IF seal /\ ~is_engine_blocking_ THEN ts1 + 1 ELSE ts1
      tensor2 == IF seal /\ is_engine_blocking_
                   THEN copy(Deref(key, updates.merged.tensor))
                   ELSE tensor1
  IN IF ~first /\ ~sync_mode_
       THEN Abort("push", key, meta)          \* CHECK(sync_mode_)
     ELSE IF sync_mode_ /\ is_engine_blocking_ /\ (~first \/ seal)
             /\ Deref(key, updates.merged.tensor) = NULL
       THEN Abort("push", key, meta)          \* the reducer reads a null pointer
     ELSE
       /\ engine_queues_' = queue2
       /\ timestamp_' = ts2
       /\ store_' = [store_ EXCEPT ![key].tensor = tensor2]
       /\ update_buf_' = [update_buf_ EXCEPT
             ![key].present = TRUE,
             ![key].request = IF seal \/ ~sync_mode_ THEN <<>> ELSE request]
       /\ push_response_map_' = push_response_map_ \cup {key}
       /\ ev' = [NoEvent EXCEPT
             !.op = "push", !.key = key, !.req = meta, !.recved = recved,
             !.acked = <<meta>>,
             !.peak = Len(request),
             !.enq = (IF enqueue THEN <<ops>> ELSE <<>>) \o
                     (IF seal /\ ~is_engine_blocking_ THEN <<"ALL_RECV">>
                      ELSE <<>>)]
       /\ initlog' = initlog
       /\ UNCHANGED <<aborted, fp16_copy_, compressor_map_, engine_msg,
                      flagvars, pull_response_map_>>

\* is_push_finished_[tid][key], false when the key has no entry yet
PushFinished(tid, key) ==
  key \in DOMAIN is_push_finished_[tid] /\ is_push_finished_[tid][key]

\* is_push_finished_[tid][key] = v
SetPushFinished(tid, key, v) ==
  [is_push_finished_ EXCEPT
     ![tid] = [k \in (DOMAIN @) \cup {key} |-> IF k = key THEN v ELSE @[k]]]

\* the servable test without the seen-sender check
PullServable_NoSeen(tid, key, sender) == PushFinished(tid, key)

\* the servable test without the push-finished check
PullServable_NoFinished(tid, key, sender) ==
  sender \notin seen_sender_[tid][key]

\* lines 436-437: push already finished and the sender has no response yet
PullServable(tid, key, sender) ==
  PushFinished(tid, key) /\ sender \notin seen_sender_[tid][key]

\* the reset one pull early
AllPulled_OneEarly(cnt) == cnt = NumWorkers - 1

\* the reset that never comes
AllPulled_Never(cnt) == FALSE

\* lines 197, 444: the N-th pull of the step was served
AllPulled(cnt) == cnt = NumWorkers

\* the buffer check passed although nothing is allocated
Initialized_Always(stored) == TRUE

\* line 424: CHECK(stored->tensor)
Initialized(stored) == stored.tensor # NULL

\* BytePSHandlePull
BytePSHandlePull(key, meta) ==
  LET stored == store_[key]
      tid == GetThreadID(key)
      resp == <<PullResp(key, meta, update_buf_[key].merged, executed[key])>>
  IN IF ~Initialized(stored)
       THEN Abort("pull", key, meta)          \* CHECK(stored->tensor)
     ELSE IF is_engine_blocking_ \/ ~sync_mode_
       THEN IF ~PullResponseReady(key)
              THEN Abort("pull", key, meta)   \* CHECK(updates.merged.tensor)
            ELSE
              /\ pull_response_map_' = SendPullResponse(pull_response_map_, key)
              /\ ev' = [NoEvent EXCEPT !.op = "pull", !.key = key,
                                       !.req = meta, !.pulled = resp]
              /\ UNCHANGED <<aborted, storevars, queuevars, flagvars,
                             push_response_map_, initlog>>
     ELSE IF PullServable(tid, key, meta.sender)
       THEN IF ~PullResponseReady(key)
              THEN Abort("pull", key, meta)   \* CHECK(updates.merged.tensor)
            ELSE
              LET cnt == pull_cnt_[tid][key] + 1
                  reset == AllPulled(cnt)
              IN /\ pull_response_map_' =
                       SendPullResponse(pull_response_map_, key)
                 /\ is_push_finished_' = SetPushFinished(tid, key, ~reset)
                 /\ pull_cnt_' = [pull_cnt_ EXCEPT
                       ![tid][key] = IF reset THEN 0 ELSE cnt]
                 /\ seen_sender_' = [seen_sender_ EXCEPT
                       ![tid][key] = IF reset THEN {} ELSE @ \cup {meta.sender}]
                 /\ ev' = [NoEvent EXCEPT !.op = "pull", !.key = key,
                                          !.req = meta, !.pulled = resp]
                 /\ UNCHANGED <<aborted, storevars, queuevars, q_pull_reqmeta_,
                                push_response_map_, initlog>>
     ELSE
       \* push not finished: park the pull and wait for the engine
       /\ is_push_finished_' =
             SetPushFinished(tid, key, PushFinished(tid, key))
       /\ q_pull_reqmeta_' = [q_pull_reqmeta_ EXCEPT
             ![tid][key] = Append(@, meta)]
       /\ ev' = [NoEvent EXCEPT !.op = "pull", !.key = key, !.req = meta]
       /\ UNCHANGED <<aborted, storevars, queuevars, pull_cnt_, seen_sender_,
                      push_response_map_, pull_response_map_, initlog>>

\* BytePSHandleDefaultReq
BytePSHandleDefaultReq(key, meta, recved) ==
  IF meta.push
    THEN IF store_[key].tensor = NULL
           THEN BytePSHanleInit(key, meta, Bytes(meta.dtype, recved))
           ELSE BytePSHandlePush(key, meta, recved, Bytes(meta.dtype, recved))
    ELSE BytePSHandlePull(key, meta)

\* the request types BytePSHandler serves
Served_Types == {"config", "default", "compressed"}

\* a handler whose switch lets the other request types fall into the default
\* push / pull path
BytePSHandler_Fallthrough(key, meta, recved) ==
  IF meta.rtype = "config" THEN BytePSHandleConfigReq(key, meta, recved)
  ELSE BytePSHandleDefaultReq(key, meta, recved)

\* BytePSHandler: one transport callback, serialized by handle_mu_
BytePSHandler(key, meta, recved) ==
  IF meta.rtype = "config" THEN BytePSHandleConfigReq(key, meta, recved)
  ELSE IF meta.rtype \in {"default", "compressed"}
    THEN BytePSHandleDefaultReq(key, meta, recved)
  ELSE Abort("handler", key, meta)            \* BPS_CHECK(0)


\* Compressor::Decompress of the installed compressor (Top-K): the compressed
\* tensor is a list of (index, value) pairs, scattered into a zero tensor
Decompress(compressed, n) ==
  [i \in 1..n |->
     IF \E j \in 1..(Len(compressed) \div 2) : compressed[2 * j - 1] = i - 1
       THEN LET j == CHOOSE j \in 1..(Len(compressed) \div 2) :
                       compressed[2 * j - 1] = i - 1
            IN compressed[2 * j]
       ELSE 0]

\* |x|
Abs(x) == IF x < 0 THEN -x ELSE x

\* Compressor::Compress of the installed compressor (Top-K, k = 1): the
\* entry of largest absolute value, the smaller index on a tie
Compress(grad) ==
  LET i == CHOOSE i \in DOMAIN grad :
             \A j \in DOMAIN grad :
               \/ Abs(grad[i]) > Abs(grad[j])
               \/ (Abs(grad[i]) = Abs(grad[j]) /\ i <= j)
  IN <<i - 1, grad[i]>>

\* CpuReducer::copy_mixed_precision, f32 to f16: values beyond 2048 lose
\* their low bit
Demote(t) ==
  [i \in DOMAIN t |-> IF Abs(t[i]) <= 2048 THEN t[i] ELSE 2 * (t[i] \div 2)]

\* lines 99-142 of BytePSServerEngineThread: what ALL_RECV leaves in the
\* key's merged view [tensor, len]
\* what BytePSHandler locks and accesses on a request, from the state in
\* which the request arrives: handle_mu_ around the whole call
HandlerProg(key, meta) ==
  LET tid == GetThreadID(key)
      config ==
        <<Access("compressor_map_")>>
          \o (IF Registered(key) THEN <<>>
              ELSE GetStore \o (IF aborted' THEN <<>>
                                ELSE <<Insert("compressor_map_")>>))
          \o (IF aborted' THEN <<>> ELSE <<Access("update_buf_")>>)
      default ==
        GetStore \o
          (IF meta.push THEN
             IF Initialized(store_[key]) THEN <<Access("update_buf_")>>
             ELSE <<Access("update_buf_")>>
                    \o (IF store_'[key] # store_[key] /\ fp16_copy_' # fp16_copy_
                          THEN <<Access("fp16_copy_")>> ELSE <<>>)
           ELSE IF ~Initialized(store_[key]) THEN <<>>
           ELSE PullProg(tid, is_engine_blocking_ \/ ~sync_mode_,
                         PullServable(tid, key, meta.sender)))
  IN Locked(Global("handle_mu_"),
       IF meta.rtype = "config" THEN config
       ELSE IF meta.rtype \in Served_Types THEN default
       ELSE <<>>)

\* what a strand locks and accesses before the switch on msg.ops: the
\* compressor map without a lock, and for ALL_RECV the fp16 copy and the
\* update state through their accessors
EngineProg(msg) ==
  IF msg.ops = "TERMINATE" THEN <<>>
  ELSE <<Access("compressor_map_")>> \o
       (IF msg.ops # "ALL_RECV" THEN <<>>
        ELSE IF Registered(msg.key) THEN GetFP16Copy \o GetUpdate
        ELSE IF msg.mixed_precision THEN GetUpdate \o GetFP16Copy
        ELSE GetUpdate)

RECURSIVE Repeat(_, _)
\* n times the same events
Repeat(prog, n) == IF n = 0 THEN <<>> ELSE prog \o Repeat(prog, n - 1)

\* case ALL_RECV: the shard's bookkeeping under flag_mu_[i], with one
\* SendPullResponse for each parked pull that is served
AllRecvProg(i, sent) == Locked(flag_mu_(i), Repeat(PullResponseProg, sent))

\* the view in which mixed precision comes before the compressor
MergedView_MixedFirst(msg, compressed) ==
  IF msg.mixed_precision
    THEN [tensor |-> "fp16", len |-> fp16_copy_[msg.key].len]
  ELSE IF Registered(msg.key)
    THEN [tensor |-> "fp16", len |-> ByteLen(compressed)]
  ELSE [tensor |-> "stored", len |-> msg.len]

MergedView(msg, compressed) ==
  IF Registered(msg.key)
    THEN [tensor |-> "fp16", len |-> ByteLen(compressed)]
  ELSE IF msg.mixed_precision
    THEN [tensor |-> "fp16", len |-> fp16_copy_[msg.key].len]
  ELSE [tensor |-> "stored", len |-> msg.len]

\* BytePSServerEngineThread, one message: WaitAndPop, the compressor part and
\* the reducer operation; ALL_RECV goes on to its flush under flag_mu_
BytePSServerEngineThread(i) ==
  /\ ~aborted
  /\ engine_alive[i]
  /\ engine_msg[i] = NoMsg
  /\ engine_queues_[i] # <<>>
  /\ LET msg == Head(engine_queues_[i])
         key == msg.key
         comp == Registered(key)
         stored == store_[key]
         n == Len(stored.tensor)
         src == IF comp THEN Decompress(msg.src, n) ELSE msg.src
         compressed == Compress(stored.tensor)
     IN IF msg.ops = "TERMINATE"
          THEN \* line 94: the strand leaves its loop
               /\ engine_queues_' = [engine_queues_ EXCEPT ![i] = Tail(@)]
               /\ engine_alive' = [engine_alive EXCEPT ![i] = FALSE]
               /\ ev' = [NoEvent EXCEPT !.op = "terminate"]
               /\ UNCHANGED <<aborted, storevars, engine_msg, timestamp_,
                              flagvars, push_response_map_,
                              pull_response_map_, executed>>
        ELSE IF msg.ops = "ALL_RECV" /\ comp /\ fp16_copy_[key].tensor = NULL
          THEN \* Compress writes its output through a null pointer
               /\ aborted' = TRUE
               /\ ev' = [NoEvent EXCEPT !.op = "engine", !.key = key]
               /\ UNCHANGED <<storevars, queuevars, flagvars,
                              push_response_map_, pull_response_map_,
                              executed, engine_alive>>
        ELSE
          \* line 144 and the reducer calls go through bps_reducer_; once
          \* byteps_server() has deleted it they are calls through a null
          \* pointer, which either crash or run the reducer's code as before
          /\ aborted' \in (IF bps_reducer_ THEN {FALSE} ELSE {FALSE, TRUE})
          /\ engine_alive' = engine_alive
          /\ engine_queues_' = [engine_queues_ EXCEPT ![i] = Tail(@)]
          /\ engine_msg' = [engine_msg EXCEPT
                ![i] = IF msg.ops = "ALL_RECV" THEN msg ELSE NoMsg]
          /\ store_' = [store_ EXCEPT ![key].tensor =
                CASE msg.ops = "COPY_FIRST" -> copy(src)
                  [] msg.ops = "SUM_RECV" -> sum(@, src)
                  [] OTHER -> @]
          /\ fp16_copy_' =
                IF msg.ops # "ALL_RECV" THEN fp16_copy_
                ELSE IF comp
                  THEN [fp16_copy_ EXCEPT ![key].tensor = compressed]
                ELSE IF msg.mixed_precision
                  THEN [fp16_copy_ EXCEPT ![key].tensor = Demote(stored.tensor)]
                ELSE fp16_copy_
          /\ update_buf_' =
                IF msg.ops # "ALL_RECV" THEN update_buf_
                ELSE [update_buf_ EXCEPT
                        ![key].present = TRUE,
                        ![key].merged.tensor = MergedView(msg, compressed).tensor,
                        ![key].merged.len = MergedView(msg, compressed).len]
          /\ executed' = [executed EXCEPT
                ![key].copy = @ + (IF msg.ops = "COPY_FIRST" THEN 1 ELSE 0),
                ![key].sum = @ + (IF msg.ops = "SUM_RECV" THEN 1 ELSE 0)]
          /\ ev' = [NoEvent EXCEPT !.op = "engine", !.key = key]
          /\ UNCHANGED <<compressor_map_, timestamp_, flagvars,
                         push_response_map_, pull_response_map_>>
  /\ sync' = [thread |-> <<"engine", i>>,
              prog |-> EngineProg(Head(engine_queues_[i]))]
  /\ UNCHANGED <<envvars, wstate, nreq, pushsum, initlog, cfglog, npullresp,
                 served, enqlog, mainvars, codec, lib>>

RECURSIVE FlushParked(_, _, _, _, _)
\* lines 186-203: serve the parked pulls, one response per unseen sender, until
\* the N-th pull of the step; `kept` are the parked pulls passed over
FlushParked(rest, kept, cnt, seen, sent) ==
  IF rest = <<>>
    THEN [q |-> kept, cnt |-> cnt, seen |-> seen, fin |-> TRUE, sent |-> sent]
  ELSE
    LET it == Head(rest)
        serve == it.sender \notin seen
        cnt1 == IF serve THEN cnt + 1 ELSE cnt
        seen1 == IF serve THEN seen \cup {it.sender} ELSE seen
        sent1 == IF serve THEN Append(sent, it) ELSE sent
        kept1 == IF serve THEN kept ELSE Append(kept, it)
    IN IF AllPulled(cnt1)
         THEN [q |-> kept1 \o Tail(rest), cnt |-> 0, seen |-> {},
               fin |-> FALSE, sent |-> sent1]
         ELSE FlushParked(Tail(rest), kept1, cnt1, seen1, sent1)

\* case ALL_RECV of BytePSServerEngineThread, under flag_mu_[i]
EngineAllRecv(i) ==
  /\ ~aborted
  /\ engine_alive[i]
  /\ engine_msg[i] # NoMsg
  /\ LET msg == engine_msg[i]
         key == msg.key
         r == FlushParked(q_pull_reqmeta_[i][key], <<>>, pull_cnt_[i][key],
                          seen_sender_[i][key], <<>>)
         ex == [executed[key] EXCEPT !.all = @ + 1]
     IN IF r.sent # <<>> /\ ~PullResponseReady(key)
          THEN \* CHECK(updates.merged.tensor)
               /\ aborted' = TRUE
               /\ ev' = [NoEvent EXCEPT !.op = "flush", !.key = key]
               /\ UNCHANGED <<storevars, queuevars, flagvars,
                              push_response_map_, pull_response_map_,
                              executed>>
        ELSE
          /\ engine_msg' = [engine_msg EXCEPT ![i] = NoMsg]
          /\ is_push_finished_' = SetPushFinished(i, key, r.fin)
          /\ pull_cnt_' = [pull_cnt_ EXCEPT ![i][key] = r.cnt]
          /\ seen_sender_' = [seen_sender_ EXCEPT ![i][key] = r.seen]
          /\ q_pull_reqmeta_' = [q_pull_reqmeta_ EXCEPT ![i][key] = r.q]
          /\ pull_response_map_' =
                IF r.sent = <<>> THEN pull_response_map_
                ELSE SendPullResponse(pull_response_map_, key)
          /\ executed' = [executed EXCEPT ![key] = ex]
          \* line 190 sends through byteps_server_; once byteps_server() has
          \* deleted it the send is a call through a null pointer, which
          \* either crashes or returns with nothing sent
          /\ aborted' \in (IF byteps_server_ \/ r.sent = <<>> THEN {FALSE}
                           ELSE {FALSE, TRUE})
          /\ ev' = [NoEvent EXCEPT
                !.op = "flush", !.key = key,
                !.pulled = IF ~byteps_server_ THEN <<>>
                           ELSE [j \in DOMAIN r.sent |->
                                   PullResp(key, r.sent[j],
                                            update_buf_[key].merged, ex)]]
          /\ UNCHANGED <<storevars, engine_queues_, timestamp_,
                         push_response_map_>>
  /\ npullresp' = [npullresp EXCEPT
        ![engine_msg[i].key] = @ + Len(ev'.pulled)]
  /\ served' = Served(engine_msg[i].key, ev'.pulled,
                      pull_cnt_'[i][engine_msg[i].key])
  /\ wstate' = DeliverAll(wstate, <<>>, ev'.pulled)
  /\ sync' = [thread |-> <<"engine", i>>,
              prog |-> AllRecvProg(i, Len(FlushParked(
                         q_pull_reqmeta_[i][engine_msg[i].key], <<>>,
                         pull_cnt_[i][engine_msg[i].key],
                         seen_sender_[i][engine_msg[i].key], <<>>).sent))]
  /\ UNCHANGED <<envvars, nreq, pushsum, initlog, cfglog, enqlog, mainvars,
                 engine_alive, codec, lib>>


(* ------------------------------ clients -------------------------------- *)
\* the bookkeeping of one handler call: responses reach the workers
Handled(ws, key) ==
  /\ wstate' = DeliverAll(ws, ev'.acked, ev'.pulled)
  /\ npullresp' = [npullresp EXCEPT ![key] = @ + Len(ev'.pulled)]
  /\ served' = Served(key, ev'.pulled, pull_cnt_'[GetThreadID(key)][key])
  /\ enqlog' = [enqlog EXCEPT ![key] =
        IF ev'.enq = <<>> THEN @
        ELSE IF @ # <<>> /\ @[Len(@)] = "ALL_RECV" THEN ev'.enq
        ELSE @ \o ev'.enq]
  /\ cfglog' = [cfglog EXCEPT ![key] =
        [n |-> @.n + (IF ev'.op = "config" THEN 1 ELSE 0),
         acks |-> @.acks + Cardinality({i \in DOMAIN ev'.acked :
                                          ev'.acked[i].rtype = "config"})]]
  /\ sync' = [thread |-> <<"handler", 0>>, prog |-> HandlerProg(key, ev'.req)]
  /\ UNCHANGED <<envvars, executed, mainvars, engine_alive, codec, lib>>

\* any worker may send a default push at any time
SendPush(w, key, recved) ==
  /\ ~aborted /\ wstate[w].pc = "free" /\ nreq < MaxReq
  /\ BytePSHandler(key, Meta(w, TRUE, "default"), recved)
  /\ Handled(wstate, key)
  /\ nreq' = nreq + 1
  /\ UNCHANGED pushsum

\* any worker may send a config push at any time
SendConfig(w, key, kwargs) ==
  /\ ~aborted /\ wstate[w].pc = "free" /\ nreq < MaxReq
  /\ BytePSHandler(key, Meta(w, TRUE, "config"), kwargs)
  /\ Handled(wstate, key)
  /\ nreq' = nreq + 1
  /\ UNCHANGED pushsum

\* any worker may send a request of a type the server does not serve
SendOther(w, key, push, rtype) ==
  /\ ~aborted /\ wstate[w].pc = "free" /\ nreq < MaxReq
  /\ BytePSHandler(key, Meta(w, push, rtype), NULL)
  /\ Handled(wstate, key)
  /\ nreq' = nreq + 1
  /\ UNCHANGED pushsum

\* any worker may send a pull at any time
\* a push in the data type of the key: the workers agree on it, and sync mode
\* records it at the first init push
SendPushTyped(w, key, recved, dtype) ==
  /\ ~aborted /\ wstate[w].pc = "free" /\ nreq < MaxReq
  /\ update_buf_[key].merged.dtype \in {"none", dtype}
  /\ BytePSHandler(key, [Meta(w, TRUE, "default") EXCEPT !.dtype = dtype],
                   recved)
  /\ Handled(wstate, key)
  /\ nreq' = nreq + 1
  /\ UNCHANGED pushsum

SendPull(w, key) ==
  /\ ~aborted /\ wstate[w].pc = "free" /\ nreq < MaxReq
  /\ BytePSHandler(key, Meta(w, FALSE, "default"), NULL)
  /\ Handled(wstate, key)
  /\ nreq' = nreq + 1
  /\ UNCHANGED pushsum

\* a lockstep worker sends its init push, or the push of its step, and waits
WorkerPush(w, key, recved) ==
  /\ ~aborted /\ wstate[w].pc \in {"init", "push"}
  /\ BytePSHandler(key, Meta(w, TRUE, "default"), recved)
  /\ Handled([wstate EXCEPT ![w].pc = IF @ = "init" THEN "initwait"
                                      ELSE "pushwait"], key)
  /\ pushsum' = IF wstate[w].pc = "init" THEN pushsum
                ELSE [pushsum EXCEPT ![key][wstate[w].step] =
                        IF @ = NULL THEN recved ELSE sum(@, recved)]
  /\ UNCHANGED nreq

\* a lockstep worker sends the pull of its step once its push is acknowledged
WorkerPull(w, key) ==
  /\ ~aborted /\ wstate[w].pc = "pull"
  /\ BytePSHandler(key, Meta(w, FALSE, "default"), NULL)
  /\ Handled([wstate EXCEPT ![w].pc = "pullwait"], key)
  /\ UNCHANGED <<nreq, pushsum>>

(* ------------------------------ shutdown ------------------------------- *)
\* what a step of byteps_server() leaves alone
MainFrame ==
  /\ ev' = [NoEvent EXCEPT !.op = "main"]
  /\ UNCHANGED <<envvars, aborted, storevars, engine_msg, timestamp_,
                 flagvars, push_response_map_, pull_response_map_, wstate,
                 nreq, pushsum, executed, initlog, cfglog, npullresp, served,
                 enqlog, engine_alive, codec, lib, sync>>

\* the join that does not wait for the strand
Joined_NoWait(i) == TRUE

\* line 624: t->join() returns once strand i has left its loop
Joined(i) == ~engine_alive[i]

\* the strands byteps_server() has created (lines 591-600: sync mode only)
NumThreads == IF sync_mode_ THEN engine_thread_num_ ELSE 0

\* lines 626-636: the buffers free() is called on
Allocated ==
  {<<"store", k>> : k \in {x \in Keys : store_[x].tensor # NULL}}
    \cup {<<"fp16", k>> : k \in {x \in Keys : fp16_copy_[x].tensor # NULL}}

\* line 612: Finalize returns, no handler runs any more
Finalize ==
  /\ ~aborted /\ main_pc = "serving"
  /\ main_pc' = "finalized"
  /\ UNCHANGED <<main_i, bps_reducer_, byteps_server_, freed, engine_queues_>>
  /\ MainFrame

\* lines 613-620: delete byteps_server_, then delete bps_reducer_
DeleteServices ==
  /\ ~aborted /\ main_pc \in {"finalized", "reducer"}
  /\ IF main_pc = "finalized"
       THEN /\ byteps_server_' = FALSE
            /\ main_pc' = "reducer"
            /\ UNCHANGED bps_reducer_
       ELSE /\ bps_reducer_' = FALSE
            /\ main_pc' = "terminate"
            /\ UNCHANGED byteps_server_
  /\ UNCHANGED <<main_i, freed, engine_queues_>>
  /\ MainFrame

\* lines 621-623: push one TERMINATE message to the next shard queue
PushTerminate ==
  /\ ~aborted /\ main_pc = "terminate"
  /\ IF main_i < NumThreads
       THEN /\ engine_queues_' = QueuePush(engine_queues_, main_i, TerminateMsg)
            /\ main_i' = main_i + 1
            /\ UNCHANGED main_pc
       ELSE /\ main_pc' = "join"
            /\ main_i' = 0
            /\ UNCHANGED engine_queues_
  /\ UNCHANGED <<bps_reducer_, byteps_server_, freed>>
  /\ MainFrame

\* line 624: join the next strand
JoinThread ==
  /\ ~aborted /\ main_pc = "join"
  /\ IF main_i < NumThreads
       THEN /\ Joined(main_i)
            /\ main_i' = main_i + 1
            /\ UNCHANGED main_pc
       ELSE /\ main_pc' = "free"
            /\ main_i' = 0
  /\ UNCHANGED <<bps_reducer_, byteps_server_, freed, engine_queues_>>
  /\ MainFrame

\* lines 626-640: free the stored tensors and the fp16 copies, return
FreeBuffers ==
  /\ ~aborted /\ main_pc = "free"
  /\ freed' = Allocated
  /\ main_pc' = "returned"
  /\ UNCHANGED <<main_i, bps_reducer_, byteps_server_, engine_queues_>>
  /\ MainFrame

(* ------------------------------ bit codec ------------------------------ *)
\* A word of type T is the sequence of its bits, most significant first, so
\* that a 64-bit word keeps its width; bit p of a word is the bit of weight 2^p.
BitAt(word, p) == word[Len(word) - p]

\* n zero bits
ZeroBits(n) == [i \in 1..n |-> 0]

\* _dptr[idx] = word, on an array that grows as it is written
StoreWord(dptr, idx, word) ==
  IF idx + 1 <= Len(dptr) THEN [dptr EXCEPT ![idx + 1] = word]
  ELSE Append(dptr, word)

\* BitWriter<T>(data) for a T of w bits
BitWriter(w) ==
  [accum |-> ZeroBits(w), used_bits |-> 0, blocks |-> 0, dptr |-> <<>>]

\* BitWriter::Put
Put(wr, x) ==
  LET w == Len(wr.accum)
      accum == Tail(wr.accum) \o <<x>>
  IN IF wr.used_bits + 1 = w
       THEN [accum |-> accum, used_bits |-> 0, blocks |-> wr.blocks + 1,
             dptr |-> StoreWord(wr.dptr, wr.blocks, accum)]
       ELSE [wr EXCEPT !.accum = accum, !.used_bits = @ + 1]

\* the flush that stores the partial word as it is, not padded
WriterFlush_NoPad(wr) ==
  IF wr.used_bits > 0
    THEN [wr EXCEPT !.dptr = StoreWord(wr.dptr, wr.blocks, wr.accum)]
    ELSE wr

\* BitWriter::Flush (Flush names the flush of the engine)
WriterFlush(wr) ==
  LET w == Len(wr.accum)
      padding_size == w - wr.used_bits
      accum == SubSeq(wr.accum, padding_size + 1, w) \o ZeroBits(padding_size)
  IN IF wr.used_bits > 0
       THEN [wr EXCEPT !.accum = accum,
                       !.dptr = StoreWord(wr.dptr, wr.blocks, accum)]
       ELSE wr

\* BitWriter::bits
WriterBits(wr) == wr.blocks * Len(wr.accum) + wr.used_bits

\* BitReader<T>(data) for a T of w bits; _accum is not initialized, and is
\* not read before the first word is fetched
BitReader(w) ==
  [w |-> w, accum |-> <<>>, used_bits |-> 0, blocks |-> 0, overrun |-> FALSE]

\* the bits of a T of w bits that are set in (1 << n), the 1 being an int:
\* below the sign bit it is bit n; 1 << 31 is INT_MIN, whose conversion to a
\* wider unsigned T sets every bit from 31 up; a shift by the width of int or
\* more is undefined, and a build wraps the count, yields 0, or shifts wide
MaskBits(n, w, build) ==
  LET sign == IntBits - 1
      int(m) == IF m < sign THEN {m} ELSE {p \in 0..(w - 1) : p >= sign}
  IN IF n < IntBits THEN int(n)
     ELSE IF build = "wrap" THEN int(n % IntBits)
     ELSE IF build = "zero" THEN {}
     ELSE {n}

\* the mask of a reader that shifts a T: T(1) << n
MaskBits_Wide(n, w, build) == {n}

\* BitReader::Get on the words dptr: [bit, rd]; a read beyond the words that
\* were written is recorded as an overrun and yields 0
Get(rd, dptr, build) ==
  LET fetch == rd.used_bits = 0
      over == fetch /\ rd.blocks + 1 > Len(dptr)
      w == rd.w
      rd1 == IF fetch
               THEN [rd EXCEPT !.accum = IF over THEN ZeroBits(w)
                                         ELSE dptr[rd.blocks + 1],
                               !.used_bits = w, !.blocks = @ + 1,
                               !.overrun = @ \/ over]
               ELSE rd
      n == rd1.used_bits - 1
      bit == IF \E p \in MaskBits(n, w, build) : BitAt(rd1.accum, p) = 1
               THEN 1 ELSE 0
  IN [bit |-> bit, rd |-> [rd1 EXCEPT !.used_bits = n]]

\* BitReader::bits
ReaderBits(rd) == rd.blocks * rd.w - rd.used_bits

RECURSIVE PutAll(_, _)
\* Put of each bit of a sequence, in order
PutAll(wr, bits) ==
  IF bits = <<>> THEN wr ELSE PutAll(Put(wr, Head(bits)), Tail(bits))

RECURSIVE Log2Floor(_)
\* std::floor(std::log2(x)), exact for the x of the model
Log2Floor(x) == IF x <= 1 THEN 0 ELSE 1 + Log2Floor(x \div 2)

\* (x >> i) & 1
Bit(x, i) == (x \div (2 ^ i)) % 2

\* EliasDeltaEncode
EliasDeltaEncode(wr, x) ==
  LET len == 1 + Log2Floor(x)
      lenth_of_len == Log2Floor(len)
  IN PutAll(wr,
       ZeroBits(lenth_of_len)
         \o [j \in 1..(lenth_of_len + 1) |-> Bit(len, lenth_of_len + 1 - j)]
         \o [j \in 1..(len - 1) |-> Bit(x, len - 1 - j)])

RECURSIVE SkipZeros(_, _, _, _)
\* while (!bit_reader.Get()) lenth_of_len++, stopped when it overruns
SkipZeros(rd, dptr, build, cnt) ==
  LET g == Get(rd, dptr, build)
  IN IF g.bit = 1 \/ g.rd.overrun THEN [cnt |-> cnt, rd |-> g.rd]
     ELSE SkipZeros(g.rd, dptr, build, cnt + 1)

RECURSIVE ReadNum(_, _, _, _, _)
\* k times: num <<= 1; if (bit_reader.Get()) num |= 1
ReadNum(rd, dptr, build, num, k) ==
  IF k <= 0 THEN [num |-> num, rd |-> rd]
  ELSE LET g == Get(rd, dptr, build)
       IN ReadNum(g.rd, dptr, build, 2 * num + g.bit, k - 1)

\* EliasDeltaDecode: [num, rd]. A run of Log2Floor(IntBits) zeros or more
\* announces a len of IntBits or more, hence a num of IntBits bits or more:
\* it is above every number of the model and is reported as 0, which no
\* encoded x is; so is a decode that runs beyond the words that were written
EliasDeltaDecode(rd, dptr, build) ==
  LET z == SkipZeros(rd, dptr, build, 0)
      l == ReadNum(z.rd, dptr, build, 1, z.cnt)
  IN IF z.rd.overrun \/ z.cnt >= Log2Floor(IntBits)
       THEN [num |-> 0, rd |-> z.rd]
       ELSE ReadNum(l.rd, dptr, build, 1, l.num - 1)

\* the word types of the codec, by width
Widths == {8, 16, 32, 64}

\* what a build makes of the undefined shift of BitReader::Get; no shift is
\* undefined when T is no wider than int
Builds(w) == IF w > IntBits THEN {"wrap", "zero", "wide"} ELSE {"wrap"}

\* the bit sequences of length n
BitSeqs(n) == [1..n -> {0, 1}]

\* the bit sequences written: a free pattern, a run of one bit that leads to
\* the middle or to the end of a word, and a free pattern
Inputs(w) ==
  {p \o [i \in 1..m |-> b] \o q :
     p \in UNION {BitSeqs(n) : n \in 0..MaxPat},
     q \in UNION {BitSeqs(n) : n \in 0..MaxPat},
     b \in {0, 1}, m \in {0, w \div 2 - 1, w - 1}}

\* the sequences of numbers encoded back to back
Numbers == UNION {[1..n -> 1..MaxX] : n \in 1..MaxNums}

\* everything but the codec
servervars ==
  <<sync_mode_, is_engine_blocking_, aborted, store_, update_buf_,
    fp16_copy_, compressor_map_, engine_queues_, engine_msg, timestamp_,
    is_push_finished_, pull_cnt_, seen_sender_, q_pull_reqmeta_,
    push_response_map_, pull_response_map_, wstate, nreq, pushsum,
    executed, initlog, cfglog, npullresp, served, enqlog, ev,
    main_pc, main_i, engine_alive, bps_reducer_, byteps_server_, freed,
    sync>>

\* a writer and a reader of T over one array, before the first Put
CodecStart(mode, w, build, input) ==
  [mode |-> mode, pc |-> "write", w |-> w, build |-> build, input |-> input,
   i |-> 0, wr |-> BitWriter(w), rd |-> BitReader(w), out |-> <<>>]

\* bit_writer.Put(B[i]) of the next bit of B
PutBit ==
  /\ codec.pc = "write" /\ codec.mode = "bits"
  /\ codec.i < Len(codec.input)
  /\ codec' = [codec EXCEPT !.wr = Put(@, codec.input[codec.i + 1]),
                            !.i = @ + 1]
  /\ UNCHANGED <<servervars, lib>>

\* EliasDeltaEncode(bit_writer, x) of the next number
EncodeNum ==
  /\ codec.pc = "write" /\ codec.mode = "elias"
  /\ codec.i < Len(codec.input)
  /\ codec' = [codec EXCEPT
                 !.wr = EliasDeltaEncode(@, codec.input[codec.i + 1]),
                 !.i = @ + 1]
  /\ UNCHANGED <<servervars, lib>>

\* bit_writer.Flush() after the last Put; the reader starts at the same array
FlushWriter ==
  /\ codec.pc = "write"
  /\ codec.i = Len(codec.input)
  /\ codec' = [codec EXCEPT !.wr = WriterFlush(@),
                            !.pc = IF codec.input = <<>> THEN "done" ELSE "read"]
  /\ UNCHANGED <<servervars, lib>>

\* bit_reader.Get() of the next bit, |B| times
GetBit ==
  /\ codec.pc = "read" /\ codec.mode = "bits"
  /\ LET g == Get(codec.rd, codec.wr.dptr, codec.build)
         out == Append(codec.out, g.bit)
     IN codec' = [codec EXCEPT
                    !.rd = g.rd, !.out = out,
                    !.pc = IF Len(out) = Len(codec.input) THEN "done" ELSE @]
  /\ UNCHANGED <<servervars, lib>>

\* EliasDeltaDecode(bit_reader) of the next number, n times
DecodeNum ==
  /\ codec.pc = "read" /\ codec.mode = "elias"
  /\ LET d == EliasDeltaDecode(codec.rd, codec.wr.dptr, codec.build)
         out == Append(codec.out, d.num)
     IN codec' = [codec EXCEPT
                    !.rd = d.rd, !.out = out,
                    !.pc = IF Len(out) = Len(codec.input) THEN "done" ELSE @]
  /\ UNCHANGED <<servervars, lib>>

(* ------------------------------- kwargs -------------------------------- *)
\* A std::string is the sequence of its characters. A name of the registry's
\* vocabulary ("compressor_type", "topk", ...) is written as one character:
\* it holds no whitespace and no digit, which is all that the stream
\* operators look at.
DigitChars == <<"0", "1", "2", "3", "4", "5", "6", "7", "8", "9">>

IsSpace(c) == c = " "

IsDigit(c) == \E d \in DOMAIN DigitChars : DigitChars[d] = c

DigitVal(c) == (CHOOSE d \in DOMAIN DigitChars : DigitChars[d] = c) - 1

RECURSIVE ToChars(_)
\* os << n for an unsigned n: its decimal digits
ToChars(n) ==
  IF n < 10 THEN <<DigitChars[n + 1]>>
  ELSE ToChars(n \div 10) \o <<DigitChars[(n % 10) + 1]>>

\* kwargs_t: a map from strings to strings
EmptyKwargs == [k \in {} |-> <<>>]

\* kwargs[key] = val
KwargsPut(kwargs, key, val) ==
  [k \in DOMAIN kwargs \cup {key} |-> IF k = key THEN val ELSE kwargs[k]]

RECURSIVE Serialize(_, _)
\* Serialize, the map being iterated in the order given (the order of an
\* unordered_map is any): the size, then " key value" for each pair
Serialize(kwargs, order) ==
  IF order = <<>> THEN ToChars(Cardinality(DOMAIN kwargs))
  ELSE LET n == Len(order)
           kwarg == order[n]
       IN Serialize(kwargs, SubSeq(order, 1, n - 1))
            \o <<" ">> \o kwarg \o <<" ">> \o kwargs[kwarg]

\* std::istringstream is(content)
IStream(content) == [rest |-> content, fail |-> FALSE]

RECURSIVE SkipWs(_)
\* the leading whitespace an extraction skips
SkipWs(str) ==
  IF str # <<>> /\ IsSpace(Head(str)) THEN SkipWs(Tail(str)) ELSE str

RECURSIVE TakeWhile(_, _)
\* the longest prefix of str whose characters satisfy Ok
TakeWhile(Ok(_), str) ==
  IF str # <<>> /\ Ok(Head(str))
    THEN <<Head(str)>> \o TakeWhile(Ok, Tail(str))
    ELSE <<>>

RECURSIVE Number(_, _)
\* the value of a run of decimal digits
Number(digits, acc) ==
  IF digits = <<>> THEN acc
  ELSE Number(Tail(digits), 10 * acc + DigitVal(Head(digits)))

\* is >> n for an unsigned n: [val, is]; a failed extraction stores 0 and
\* sets failbit, and an extraction from a failed stream does nothing
ReadUnsigned(is) ==
  LET str == SkipWs(is.rest)
      digits == TakeWhile(IsDigit, str)
  IN IF is.fail THEN [val |-> 0, is |-> is]
     ELSE IF digits = <<>>
       THEN [val |-> 0, is |-> [rest |-> str, fail |-> TRUE]]
     ELSE [val |-> Number(digits, 0),
           is |-> [is EXCEPT !.rest = SubSeq(str, Len(digits) + 1, Len(str))]]

\* the extraction that takes the characters up to the next whitespace
\* without skipping the whitespace in front
ReadString_NoSkip(is) ==
  LET NotSpace(c) == ~IsSpace(c)
      tok == TakeWhile(NotSpace, is.rest)
  IN IF is.fail \/ is.rest = <<>>
       THEN [val |-> <<>>, is |-> [is EXCEPT !.fail = TRUE]]
       ELSE [val |-> tok,
             is |-> [is EXCEPT !.rest = SubSeq(@, Len(tok) + 1, Len(@))]]

\* is >> str into a fresh std::string: [val, is]; the characters up to the
\* next whitespace; at the end of the content the extraction fails and the
\* string stays empty
ReadString(is) ==
  LET NotSpace(c) == ~IsSpace(c)
      str == SkipWs(is.rest)
      tok == TakeWhile(NotSpace, str)
  IN IF is.fail THEN [val |-> <<>>, is |-> is]
     ELSE IF str = <<>>
       THEN [val |-> <<>>, is |-> [rest |-> str, fail |-> TRUE]]
     ELSE [val |-> tok,
           is |-> [is EXCEPT !.rest = SubSeq(str, Len(tok) + 1, Len(str))]]

RECURSIVE ReadPairs(_, _, _)
\* for (i = 0; i < size; ++i) { is >> key >> val; kwargs[key] = val; }
ReadPairs(is, size, kwargs) ==
  IF size = 0 THEN kwargs
  ELSE LET key == ReadString(is)
           val == ReadString(key.is)
       IN ReadPairs(val.is, size - 1, KwargsPut(kwargs, key.val, val.val))

\* Deserialize: it returns a map for every content
Deserialize(content) ==
  LET size == ReadUnsigned(IStream(content))
  IN ReadPairs(size.is, size.val, EmptyKwargs)

\* the strings of the kwargs of the model: letters, digits, a string with
\* whitespace inside and the empty string
Strings ==
  {<<"a">>, <<"1">>, <<"a", "1">>, <<"2", "a">>, <<"a", " ", "1">>, <<>>}

\* a string that Serialize writes as one token
IsToken(str) == str # <<>> /\ \A i \in DOMAIN str : ~IsSpace(str[i])

\* the kwargs maps of at most MaxPairs pairs
KwargsMaps ==
  UNION {[K -> Strings] : K \in {K \in SUBSET Strings : Cardinality(K) <= MaxPairs}}

\* the orders in which a map can be iterated
Orders(kwargs) ==
  {o \in [1..Cardinality(DOMAIN kwargs) -> DOMAIN kwargs] :
     \A i, j \in DOMAIN o : i # j => o[i] # o[j]}

\* Serialize(kwargs) on the sending side
SerializeKwargs ==
  /\ lib.pc = "serialize"
  /\ lib' = [lib EXCEPT !.pc = "deserialize",
                        !.content = Serialize(lib.kwargs, lib.order)]
  /\ UNCHANGED <<servervars, codec>>

\* Deserialize(content) on the receiving side
DeserializeContent ==
  /\ lib.pc = "deserialize"
  /\ lib' = [lib EXCEPT !.pc = "deserialized", !.out = Deserialize(lib.content)]
  /\ UNCHANGED <<servervars, codec>>

RECURSIVE Words(_)
\* the whitespace-separated words of a string, in order
Words(str) ==
  LET NotSpace(c) == ~IsSpace(c)
      rest == SkipWs(str)
      word == TakeWhile(NotSpace, rest)
  IN IF rest = <<>> THEN <<>>
     ELSE <<word>> \o Words(SubSeq(rest, Len(word) + 1, Len(rest)))

\* the fundamental types T a hyper-parameter is looked up as
ParamTypes == {"float", "unsigned", "bool"}

\* ss >> value, or ss >> std::boolalpha >> value for bool, on a fresh stream:
\* a number is read from the leading digits, a bool from the words true and
\* false; an extraction that fails stores the zero of T
ParseValue(T, str) ==
  IF T = "bool"
    THEN IF SkipWs(str) # <<>> /\ Head(SkipWs(str)) = "true" THEN 1 ELSE 0
    ELSE ReadUnsigned(IStream(str)).val

\* the predicates handed to HyperParamFinder: the default one, and those of
\* the registered constructors
Checks == {"any", "positive", "nonzero"}

\* check(value)
Check(check, value) ==
  IF check = "positive" THEN value > 0
  ELSE IF check = "nonzero" THEN value # 0
  ELSE TRUE

\* the lookup that does not evaluate the predicate
HyperParamFinder_NoCheck(T, kwargs, name, optional, check) ==
  [fatal |-> name \notin DOMAIN kwargs /\ ~optional,
   value |-> IF name \in DOMAIN kwargs THEN ParseValue(T, kwargs[name]) ELSE 0,
   checked |-> FALSE]

\* HyperParamFinder<T>(kwargs, name, optional, check): [fatal, value,
\* checked]; fatal says that BPS_LOG(FATAL) was reached, checked that the
\* predicate was evaluated
HyperParamFinder(T, kwargs, name, optional, check) ==
  IF name \notin DOMAIN kwargs
    THEN [fatal |-> ~optional, value |-> 0, checked |-> FALSE]
    ELSE LET value == ParseValue(T, kwargs[name])
         IN [fatal |-> ~Check(check, value), value |-> value,
             checked |-> TRUE]

\* the hyper-parameter names and values of the model's lookups
ParamNames == {<<"compressor_k">>, <<"seed">>}
ParamValues == {<<"2">>, <<"0">>, <<"a">>, <<"true">>}

\* the kwargs a lookup is made in
ParamMaps == UNION {[K -> ParamValues] : K \in SUBSET ParamNames}

\* one call of HyperParamFinder
FindHyperParam ==
  /\ lib.pc = "find"
  /\ lib' = [lib EXCEPT
       !.pc = "found",
       !.res = HyperParamFinder(lib.T, lib.kwargs, lib.name, lib.optional,
                                lib.check)]
  /\ UNCHANGED <<servervars, codec>>

\* CompressorRegistry::Create(kwargs, size, dtype): [fatal, name]. The leaf
\* is the constructor named by compressor_type; nullptr (NoCompressor) when
\* the kwargs name none; the leaf's constructor looks up its required
\* compressor_k, which must be positive
Create(kwargs) ==
  IF <<"compressor_type">> \notin DOMAIN kwargs
    THEN [fatal |-> FALSE, name |-> NoCompressor]
    ELSE LET type == kwargs[<<"compressor_type">>]
             k == HyperParamFinder("float", kwargs, <<"compressor_k">>,
                                   FALSE, "positive")
         IN IF Len(type) = 1 /\ type[1] \in Kwargs /\ ~k.fatal
              THEN [fatal |-> FALSE, name |-> type[1]]
              ELSE [fatal |-> TRUE, name |-> NoCompressor]

\* the registration of BytePSHandleConfigReq on the content of a config
\* push: Deserialize, Create and CHECK_NE(compressor_ptr, nullptr) when the
\* key has no compressor, then the rest of the handler
ConfigReq(key, meta, content) ==
  LET created == Create(Deserialize(content))
  IN IF ~Registered(key) /\ (created.fatal \/ created.name = NoCompressor)
       THEN Abort("config", key, meta)
       ELSE BytePSHandleConfigReq(key, meta, created.name)

RECURSIVE Join(_)
\* the words of a sequence, each after a space
Join(words) ==
  IF words = <<>> THEN <<>> ELSE <<" ">> \o Head(words) \o Join(Tail(words))

\* the words after the count of a config push for a compressor, cut short
\* or whole
PairWords(name) ==
  LET all == <<<<"compressor_type">>, <<name>>, <<"compressor_k">>, <<"2">>>>
  IN {SubSeq(all, 1, n) : n \in 0..Len(all)}

\* what stands where the count belongs: nothing, a word, or a number
Counts == {<<>>, <<"x">>} \cup {ToChars(n) : n \in 0..MaxCount}

\* the contents of the config pushes of the model, well-formed or not
Blobs ==
  {SkipWs(count \o Join(words)) :
     count \in Counts, words \in UNION {PairWords(name) : name \in Kwargs}}

\* a worker's config push with the content of this run
SendConfigBlob(w, key) ==
  /\ ~aborted /\ wstate[w].pc = "free" /\ nreq < MaxReq
  /\ lib.pc = "config"
  /\ ConfigReq(key, Meta(w, TRUE, "config"), lib.content)
  /\ Handled(wstate, key)
  /\ nreq' = nreq + 1
  /\ UNCHANGED pushsum

(* --------------------------- specifications ---------------------------- *)
\* the server after byteps_server() has set it up, before any request
InitServer ==
  /\ aborted = FALSE
  /\ store_ = [k \in Keys |-> [tensor |-> NULL, len |-> 0, dtype |-> "none"]]
  /\ update_buf_ = [k \in Keys |->
        [present |-> FALSE, request |-> <<>>,
         merged |-> [tensor |-> "null", len |-> 0, dtype |-> "none"]]]
  /\ fp16_copy_ = [k \in Keys |-> [tensor |-> NULL, len |-> 0, dtype |-> "none"]]
  /\ compressor_map_ = [k \in Keys |-> NoCompressor]
  /\ engine_queues_ = [i \in Shards |-> <<>>]
  /\ engine_msg = [i \in Shards |-> NoMsg]
  /\ timestamp_ = 0
  /\ is_push_finished_ = [i \in Shards |-> <<>>]
  /\ pull_cnt_ = [i \in Shards |-> [k \in Keys |-> 0]]
  /\ seen_sender_ = [i \in Shards |-> [k \in Keys |-> {}]]
  /\ q_pull_reqmeta_ = [i \in Shards |-> [k \in Keys |-> <<>>]]
  /\ push_response_map_ = {}
  /\ pull_response_map_ = [k \in Keys |->
        [present |-> FALSE, ptr |-> "null", len |-> 0]]
  /\ nreq = 0
  /\ pushsum = [k \in Keys |-> [t \in 1..MaxStep |-> NULL]]
  /\ executed = [k \in Keys |-> [copy |-> 0, sum |-> 0, all |-> 0]]
  /\ initlog = [k \in Keys |-> [n |-> 0, acks |-> 0]]
  /\ cfglog = [k \in Keys |-> [n |-> 0, acks |-> 0]]
  /\ main_pc = "serving"
  /\ main_i = 0
  /\ engine_alive = [i \in Shards |-> sync_mode_]
  /\ bps_reducer_ = TRUE
  /\ byteps_server_ = TRUE
  /\ freed = {}
  /\ sync = NoSync
  /\ npullresp = [k \in Keys |-> 0]
  /\ served = [k \in Keys |-> [cnt |-> [w \in Workers |-> 0], closed |-> FALSE]]
  /\ enqlog = [k \in Keys |-> <<>>]
  /\ ev = NoEvent

FreeClients == wstate = [w \in Workers |-> [pc |-> "free", step |-> 0]]
LockstepClients == wstate = [w \in Workers |-> [pc |-> "init", step |-> 0]]

\* every mode, unconstrained clients
Init ==
  /\ sync_mode_ \in BOOLEAN
  /\ is_engine_blocking_ \in BOOLEAN
  /\ InitServer /\ FreeClients
  /\ codec = NoCodec
  /\ lib = NoCall

Request ==
  \E w \in Workers, key \in Keys :
    \/ \E recved \in Tensors : SendPush(w, key, recved)
    \/ \E kwargs \in Kwargs : SendConfig(w, key, kwargs)
    \/ SendPull(w, key)
    \/ \E push \in BOOLEAN, rtype \in {"rowsparse", "unknown"} :
         SendOther(w, key, push, rtype)

Engine == \E i \in Shards : BytePSServerEngineThread(i)

Flush == \E i \in Shards : EngineAllRecv(i)

Next == Request \/ Engine \/ Flush

Spec == Init /\ [][Next]_vars

\* sync, non-blocking mode, unconstrained clients
InitSync ==
  /\ sync_mode_ = TRUE
  /\ is_engine_blocking_ = FALSE
  /\ InitServer /\ FreeClients
  /\ codec = NoCodec
  /\ lib = NoCall

SpecSync == InitSync /\ [][Next]_vars

\* async mode or blocking mode, unconstrained clients
InitAsync ==
  /\ sync_mode_ \in BOOLEAN
  /\ is_engine_blocking_ \in BOOLEAN
  /\ ~sync_mode_ \/ is_engine_blocking_
  /\ InitServer /\ FreeClients
  /\ codec = NoCodec
  /\ lib = NoCall

NextAsync == Request \/ Engine

SpecAsync == InitAsync /\ [][NextAsync]_vars

\* async mode or blocking mode, default pushes and pulls only
RequestData ==
  \E w \in Workers, key \in Keys :
    \/ \E recved \in Tensors : SendPush(w, key, recved)
    \/ SendPull(w, key)

NextData == RequestData \/ Engine

SpecAsyncData == InitAsync /\ [][NextData]_vars

\* sync, non-blocking mode; the pushes of a key are of one data type, f32
\* or f16
RequestTyped ==
  \E w \in Workers, key \in Keys :
    \/ \E recved \in Tensors, dtype \in DTypes :
         SendPushTyped(w, key, recved, dtype)
    \/ \E kwargs \in Kwargs : SendConfig(w, key, kwargs)
    \/ SendPull(w, key)

NextTyped == RequestTyped \/ Engine \/ Flush

SpecTyped == InitSync /\ [][NextTyped]_vars

\* sync, non-blocking mode, default pushes and pulls while the server serves,
\* then the cleanup of byteps_server()
Serving == main_pc = "serving" /\ RequestData

Shutdown ==
  Finalize \/ DeleteServices \/ PushTerminate \/ JoinThread \/ FreeBuffers

NextShutdown == Serving \/ Engine \/ Flush \/ Shutdown

SpecShutdown == InitSync /\ [][NextShutdown]_vars

\* the main thread and the strands are scheduled fairly
FairShutdown ==
  /\ SpecShutdown
  /\ WF_vars(Shutdown)
  /\ \A i \in Shards : WF_vars(BytePSServerEngineThread(i))
  /\ \A i \in Shards : WF_vars(EngineAllRecv(i))

\* sync, non-blocking mode; every worker sends push then pull per step and
\* waits for each response; no config push, so no compressor
InitLockstep ==
  /\ sync_mode_ = TRUE
  /\ is_engine_blocking_ = FALSE
  /\ InitServer /\ LockstepClients
  /\ codec = NoCodec
  /\ lib = NoCall

Worker(w) ==
  \E key \in Keys :
    \/ \E recved \in Tensors : WorkerPush(w, key, recved)
    \/ WorkerPull(w, key)

NextLockstep == (\E w \in Workers : Worker(w)) \/ Engine \/ Flush

SpecLockstep == InitLockstep /\ [][NextLockstep]_vars

\* the strands and the workers are scheduled fairly
FairLockstep ==
  /\ SpecLockstep
  /\ \A w \in Workers : WF_vars(Worker(w))
  /\ \A i \in Shards : WF_vars(BytePSServerEngineThread(i))
  /\ \A i \in Shards : WF_vars(EngineAllRecv(i))


\* the bit writer and reader on every bit sequence of Inputs; the server idles
InitBits ==
  /\ sync_mode_ = TRUE
  /\ is_engine_blocking_ = FALSE
  /\ InitServer /\ FreeClients
  /\ lib = NoCall
  /\ \E w \in Widths : \E build \in Builds(w) : \E B \in Inputs(w) :
       codec = CodecStart("bits", w, build, B)

NextBits == PutBit \/ FlushWriter \/ GetBit

SpecBits == InitBits /\ [][NextBits]_vars

\* the Elias delta codec on every sequence of Numbers; the server idles
InitElias ==
  /\ sync_mode_ = TRUE
  /\ is_engine_blocking_ = FALSE
  /\ InitServer /\ FreeClients
  /\ lib = NoCall
  /\ \E w \in Widths : \E build \in Builds(w) : \E xs \in Numbers :
       codec = CodecStart("elias", w, build, xs)

NextElias == EncodeNum \/ FlushWriter \/ DecodeNum

SpecElias == InitElias /\ [][NextElias]_vars

\* Serialize then Deserialize on every map of KwargsMaps, in every iteration
\* order; the server idles
InitKwargs ==
  /\ sync_mode_ = TRUE
  /\ is_engine_blocking_ = FALSE
  /\ InitServer /\ FreeClients
  /\ codec = NoCodec
  /\ \E kwargs \in KwargsMaps : \E order \in Orders(kwargs) :
       lib = [pc |-> "serialize", kwargs |-> kwargs, order |-> order,
              content |-> <<>>, out |-> EmptyKwargs]

NextKwargs == SerializeKwargs \/ DeserializeContent

SpecKwargs == InitKwargs /\ [][NextKwargs]_vars

\* HyperParamFinder on every map of ParamMaps, for every type, name, flag
\* and predicate; the server idles
InitParams ==
  /\ sync_mode_ = TRUE
  /\ is_engine_blocking_ = FALSE
  /\ InitServer /\ FreeClients
  /\ codec = NoCodec
  /\ \E T \in ParamTypes, kwargs \in ParamMaps, name \in ParamNames,
        optional \in BOOLEAN, check \in Checks :
       lib = [pc |-> "find", T |-> T, kwargs |-> kwargs, name |-> name,
              optional |-> optional, check |-> check,
              res |-> [fatal |-> FALSE, value |-> 0, checked |-> FALSE]]

NextParams == FindHyperParam

SpecParams == InitParams /\ [][NextParams]_vars

\* sync mode; the workers send config pushes that carry one content of Blobs
InitRegister ==
  /\ sync_mode_ = TRUE
  /\ is_engine_blocking_ = FALSE
  /\ InitServer /\ FreeClients
  /\ codec = NoCodec
  /\ \E content \in Blobs : lib = [pc |-> "config", content |-> content]

NextRegister == \E w \in Workers, key \in Keys : SendConfigBlob(w, key)

SpecRegister == InitRegister /\ [][NextRegister]_vars


(* ------------------- error feedback and momentum ----------------------- *)
\* the most calls of a compressor in a run
MaxCalls == 2
\* the learning rates the trainer writes to lr.s: 0..MaxRate
MaxRate == 2
\* the elements of the gradients: -MaxVal..MaxVal
MaxVal == 1
\* the indices of the elements of a gradient
Elems == 1..2

RECURSIVE Gcd(_, _)
\* the greatest common divisor of two naturals
Gcd(a, b) == IF b = 0 THEN a ELSE Gcd(b, a % b)

\* the sign of an integer
Sgn(n) == IF n > 0 THEN 1 ELSE IF n < 0 THEN -1 ELSE 0

\* a floating-point value, as the fraction n/d in lowest terms with d >= 0:
\* <<1, 0>> and <<-1, 0>> are the infinities and <<0, 0>> is NaN (rounding
\* is left out)
Norm(n, d) ==
  IF d = 0 THEN <<Sgn(n), 0>>
  ELSE LET g == Gcd(Abs(n), Abs(d))
       IN <<(Sgn(d) * n) \div g, Abs(d) \div g>>

\* the value of an integer
RFrom(n) == <<n, 1>>
One == RFrom(1)
NaN == <<0, 0>>

\* x / y
RDiv(x, y) == Norm(x[1] * y[2], x[2] * y[1])

\* x * y
RMul(x, y) == Norm(x[1] * y[1], x[2] * y[2])

\* x + y
RAdd(x, y) ==
  IF x[2] = 0 /\ y[2] = 0 THEN (IF x = y THEN x ELSE NaN)
  ELSE IF x[2] = 0 THEN x
  ELSE IF y[2] = 0 THEN y
  ELSE Norm(x[1] * y[2] + y[1] * x[2], x[2] * y[2])

\* sum(dst, src, len, dtype, alpha): dst[i] += alpha * src[i]
sum_alpha(dst, src, alpha) ==
  [i \in DOMAIN dst |-> RAdd(dst[i], RMul(alpha, src[i]))]

\* sum(dst, src1, src2, len, dtype, alpha): dst[i] = src1[i] + alpha * src2[i]
sum_into(src1, src2, alpha) ==
  [i \in DOMAIN src1 |-> RAdd(src1[i], RMul(alpha, src2[i]))]

\* the gradients and buffers
Grads == [Elems -> {RFrom(v) : v \in (0 - MaxVal)..MaxVal}]
\* the contents of lr.s
Rates == {RFrom(r) : r \in 0..MaxRate}
\* the buffer of a compressor after construction
Zeros == [i \in Elems |-> RFrom(0)]

\* CorrectedErrorFeedbackCompressor after its constructor: lr.s holds mm, the
\* error buffer holds buf
CorrectedErrorFeedbackCompressor(mm, buf) ==
  [pc |-> "cef", _mm |-> mm, _pre_lr |-> mm, _cur_lr |-> mm, _buf |-> buf,
   arg |-> Zeros, grad |-> Zeros, rates |-> <<mm>>, scales |-> <<>>]

\* the trainer writes a learning rate to lr.s
WriteRate(r) ==
  /\ lib.pc = "cef" /\ lib._mm # r
  /\ lib' = [lib EXCEPT !._mm = r]
  /\ UNCHANGED <<servervars, codec>>

\* the scale of UpdateGradient: _pre_lr / _cur_lr
Scale(pre_lr, cur_lr) == RDiv(pre_lr, cur_lr)

\* CorrectedErrorFeedbackCompressor::UpdateGradient on a gradient
UpdateGradient(grad) ==
  /\ lib.pc = "cef" /\ Len(lib.scales) < MaxCalls
  /\ LET cur_lr == lib._mm
         scale == Scale(lib._pre_lr, cur_lr)
     IN lib' = [lib EXCEPT !._cur_lr = cur_lr,
                           !.arg = grad,
                           !.grad = sum_alpha(grad, lib._buf, scale),
                           !._pre_lr = cur_lr,
                           !.rates = Append(@, cur_lr),
                           !.scales = Append(@, scale)]
  /\ UNCHANGED <<servervars, codec>>

\* the momentum values
Mus == {RFrom(0), Norm(1, 2), RFrom(1), RFrom(2)}

\* a momentum compressor after its constructor
Momentum(mu) ==
  [pc |-> "momentum", _mu |-> mu, _buf |-> Zeros, arg |-> Zeros,
   grad |-> Zeros, before |-> Zeros, inner |-> <<>>]

\* NesterovMomentumCompressor::UpdateMom: the new momentum buffer
UpdateMom(buf, grad, mu) == sum_into(grad, buf, mu)

\* NesterovMomentumCompressor::UpdateGradient: the new gradient
UpdateGradientMom(buf, grad, mu) == sum_alpha(grad, buf, mu)

\* Momentum::Compress with the gradient corrected before the momentum
MomentumCompress_GradFirst(c, grad) ==
  LET g == UpdateGradientMom(c._buf, grad, c._mu)
      m == UpdateMom(c._buf, g, c._mu)
  IN [c EXCEPT !.before = c._buf, !.arg = grad, !._buf = m, !.grad = g,
               !.inner = Append(@, [fn |-> "Compress", arg |-> g])]

\* Momentum::Compress: UpdateMom, UpdateGradient, the inner Compress
MomentumCompress(c, grad) ==
  LET m == UpdateMom(c._buf, grad, c._mu)
      g == UpdateGradientMom(m, grad, c._mu)
  IN [c EXCEPT !.before = c._buf, !.arg = grad, !._buf = m, !.grad = g,
               !.inner = Append(@, [fn |-> "Compress", arg |-> g])]

\* Momentum::Decompress: the inner Decompress
MomentumDecompress(c, compressed) ==
  [c EXCEPT !.before = c._buf, !.arg = compressed,
            !.inner = Append(@, [fn |-> "Decompress", arg |-> compressed])]

\* a call of Compress on the momentum compressor
CallCompress(grad) ==
  /\ lib.pc = "momentum" /\ Len(lib.inner) < MaxCalls
  /\ lib' = MomentumCompress(lib, grad)
  /\ UNCHANGED <<servervars, codec>>

\* a call of Decompress on the momentum compressor
CallDecompress(compressed) ==
  /\ lib.pc = "momentum" /\ Len(lib.inner) < MaxCalls
  /\ lib' = MomentumDecompress(lib, compressed)
  /\ UNCHANGED <<servervars, codec>>

\* a corrected error-feedback compressor, its learning rate and error buffer
InitCorrected ==
  /\ sync_mode_ = TRUE
  /\ is_engine_blocking_ = FALSE
  /\ InitServer /\ FreeClients
  /\ codec = NoCodec
  /\ \E mm \in Rates, buf \in Grads :
       lib = CorrectedErrorFeedbackCompressor(mm, buf)

NextCorrected ==
  \/ \E r \in Rates : WriteRate(r)
  \/ \E grad \in Grads : UpdateGradient(grad)

SpecCorrected == InitCorrected /\ [][NextCorrected]_vars

\* a momentum compressor and the calls on it
InitMomentum ==
  /\ sync_mode_ = TRUE
  /\ is_engine_blocking_ = FALSE
  /\ InitServer /\ FreeClients
  /\ codec = NoCodec
  /\ \E mu \in Mus : lib = Momentum(mu)

NextMomentum ==
  \/ \E grad \in Grads : CallCompress(grad)
  \/ \E compressed \in Grads : CallDecompress(compressed)

SpecMomentum == InitMomentum /\ [][NextMomentum]_vars

(* ---------------------- sparse error feedback -------------------------- *)
\* the most elements of a gradient given to the sparse compressor
MaxLen == 3
\* the largest absolute compressor_k
MaxK == 4
\* the bytes of an element (float32)
getDataTypeLength == 4

\* the values of compressor_k: fractions below 1 and absolute counts
Factors == {Norm(1, 4), Norm(1, 2), Norm(3, 4)} \cup {RFrom(k) : k \in 1..MaxK}

\* lines 35-43 of the registration: k from compressor_k and the size in bytes
RegisterK(factor, size) ==
  IF factor[1] < factor[2]
    THEN LET k == (factor[1] * size) \div (factor[2] * getDataTypeLength)
         IN IF k = 0 THEN 1 ELSE k
    ELSE factor[1] \div factor[2]

\* SparseErrorFeedbackCompressor after its constructor, and the gradient of
\* its next call: size bytes, the error buffer holds 1, 2, ...
SparseErrorFeedbackCompressor(factor, size, mm) ==
  [pc |-> "sparse", _k |-> RegisterK(factor, size), size |-> size,
   _pre_lr |-> mm, _cur_lr |-> mm, _mm |-> mm,
   _buf |-> [j \in 1..(size \div getDataTypeLength) |-> RFrom(j)],
   grad |-> [j \in 1..(size \div getDataTypeLength) |-> One],
   _selected_idx |-> <<>>, idx |-> <<>>, written |-> {}, touched |-> {},
   calls |-> 0]

RECURSIVE sparse_sum(_, _, _, _, _, _, _)
\* _sparse_sum from iteration i on: dst[i] += src[idx_list[i]] * alpha and
\* src[idx_list[i]] = 0 (indices from 0); an element beyond the end of dst
\* has no slot in the model, the write is recorded in `written`
sparse_sum(dst, src, alpha, idx_list, i, written, touched) ==
  IF i >= Len(idx_list)
    THEN [dst |-> dst, src |-> src, written |-> written, touched |-> touched]
  ELSE
    LET at == idx_list[i + 1]
    IN sparse_sum(IF i < Len(dst)
                    THEN [dst EXCEPT ![i + 1] =
                            RAdd(@, RMul(src[at + 1], alpha))]
                    ELSE dst,
                  [src EXCEPT ![at + 1] = RFrom(0)],
                  alpha, idx_list, i + 1,
                  written \cup {i}, touched \cup {at})

\* SparseErrorFeedbackCompressor::UpdateGradient in the server build; idx are
\* the values of the _k calls of _rng.Randint(0, len)
SparseUpdateGradient(idx) ==
  /\ lib.pc = "sparse" /\ lib.calls < MaxCalls
  /\ Len(idx) = lib._k
  /\ \A j \in DOMAIN idx : idx[j] < lib.size \div getDataTypeLength
  /\ LET cur_lr == lib._mm
         r == sparse_sum(lib.grad, lib._buf, Scale(lib._pre_lr, cur_lr),
                         lib._selected_idx \o idx, 0, {}, {})
     IN lib' = [lib EXCEPT !.calls = @ + 1,
                           !._cur_lr = cur_lr, !._pre_lr = cur_lr,
                           !.grad = r.dst, !._buf = r.src,
                           !.idx = idx,
                           !.written = r.written, !.touched = r.touched,
                           !._selected_idx = <<>>]
  /\ UNCHANGED <<servervars, codec>>

\* a sparse error-feedback compressor registered with a compressor_k, for a
\* gradient of 1 to MaxLen elements
InitSparse ==
  /\ sync_mode_ = TRUE
  /\ is_engine_blocking_ = FALSE
  /\ InitServer /\ FreeClients
  /\ codec = NoCodec
  /\ \E factor \in Factors, len \in 1..MaxLen, mm \in Rates \ {RFrom(0)} :
       lib = SparseErrorFeedbackCompressor(factor, len * getDataTypeLength, mm)

NextSparse ==
  \E idx \in UNION {[1..k -> 0..(MaxLen - 1)] : k \in 1..MaxK} :
    SparseUpdateGradient(idx)

SpecSparse == InitSparse /\ [][NextSparse]_vars

(* --------------------- the threads and their locks --------------------- *)
\* the handler thread of the transport and the engine strands
Threads == {<<"handler", 0>>} \cup {<<"engine", i>> : i \in Shards}

\* what BytePSHandler can lock and access on one request: nothing for a
\* request type it does not serve, the config push, the init and data push,
\* the pull
HandlerProgs ==
  {Locked(Global("handle_mu_"), body) :
     body \in {<<>>, GetStore,
               <<Access("compressor_map_"), Access("update_buf_")>>,
               <<Access("compressor_map_")>> \o GetStore,
               <<Access("compressor_map_")>> \o GetStore
                 \o <<Insert("compressor_map_"), Access("update_buf_")>>,
               GetStore \o <<Access("update_buf_")>>,
               GetStore \o <<Access("update_buf_"), Access("fp16_copy_")>>}
             \cup {GetStore \o PullProg(tid, blocking, servable) :
                     tid \in Shards, blocking \in BOOLEAN,
                     servable \in BOOLEAN}}

\* what strand i can lock and access on one message: the compressor part
\* before the switch on msg.ops, and then for ALL_RECV the flush of the
\* parked pulls under flag_mu_[i] (the strand holds no lock between the two)
StrandProgs(i) ==
  {<<Access("compressor_map_")>> \o part :
     part \in {<<>>, GetFP16Copy \o GetUpdate, GetUpdate \o GetFP16Copy,
               GetUpdate}}
    \cup {AllRecvProg(i, sent) : sent \in 0..NumWorkers}

\* the mutexes a thread holds
NoLocks == [t \in Threads |-> {}]

\* thread t takes a request or a message and starts on it
Enter(t) ==
  /\ lib.pc = "locks" /\ lib.prog[t] = <<>>
  /\ \E prog \in (IF t[1] = "handler" THEN HandlerProgs ELSE StrandProgs(t[2])) :
       lib' = [lib EXCEPT !.prog[t] = prog]
  /\ UNCHANGED <<servervars, codec>>

\* std::lock_guard's constructor: the thread goes on once no thread holds
\* the mutex (std::mutex is not recursive)
Acquire(t) ==
  /\ lib.pc = "locks" /\ lib.prog[t] # <<>>
  /\ Head(lib.prog[t]).op = "lock"
  /\ \A u \in Threads : Head(lib.prog[t]).obj \notin lib.held[u]
  /\ lib' = [lib EXCEPT !.prog[t] = Tail(@),
                        !.held[t] = @ \cup {Head(lib.prog[t]).obj}]
  /\ UNCHANGED <<servervars, codec>>

\* std::lock_guard's destructor
Release(t) ==
  /\ lib.pc = "locks" /\ lib.prog[t] # <<>>
  /\ Head(lib.prog[t]).op = "unlock"
  /\ lib' = [lib EXCEPT !.prog[t] = Tail(@),
                        !.held[t] = @ \ {Head(lib.prog[t]).obj}]
  /\ UNCHANGED <<servervars, codec>>

\* an access to a map, or an insertion into it
Touch(t) ==
  /\ lib.pc = "locks" /\ lib.prog[t] # <<>>
  /\ Head(lib.prog[t]).op \in {"access", "insert"}
  /\ lib' = [lib EXCEPT !.prog[t] = Tail(@)]
  /\ UNCHANGED <<servervars, codec>>

\* the threads of a serving server, each between two requests or messages
InitLocks ==
  /\ sync_mode_ = TRUE
  /\ is_engine_blocking_ = FALSE
  /\ InitServer /\ FreeClients
  /\ codec = NoCodec
  /\ lib = [pc |-> "locks", prog |-> [t \in Threads |-> <<>>],
            held |-> NoLocks]

NextLocks ==
  \E t \in Threads : Enter(t) \/ Acquire(t) \/ Release(t) \/ Touch(t)

SpecLocks == InitLocks /\ [][NextLocks]_vars

(* ------------------------------- claims -------------------------------- *)
\* the pull responses dispatched by the last step
Dispatched == {ev.pulled[i] : i \in DOMAIN ev.pulled}

\* C1: in sync, non-blocking mode without compressor, every pull response
\* dispatched for step t of a key carries the elementwise sum of the N pushes
\* of step t, also when a worker has pushed step t+1 right after its own pull
C1_PullCarriesStepSum ==
  \A r \in Dispatched : r.step >= 1 => r.vals = pushsum[r.key][r.step]

\* the last step was a pull of an already-served sender, and it was parked
ParkedLast(k) ==
  LET q == q_pull_reqmeta_[GetThreadID(k)][k]
  IN /\ ev.pulled = <<>>
     /\ ~aborted
     /\ q # <<>> /\ q[Len(q)] = ev.req

\* C2: in sync, non-blocking mode, between two consecutive resets of a key's
\* shard counters each sender gets at most one pull response for the key (from
\* the handler or from the ALL_RECV flush), and a second pull of a sender that
\* was already served is parked, not answered
C2_AtMostOnePullPerSender ==
  \A k \in Keys :
    /\ \A w \in Workers : served[k].cnt[w] <= 1
    /\ (/\ ev.op = "pull" /\ ev.key = k
        /\ ~served[k].closed
        /\ served[k].cnt[ev.req.sender] >= 1
        /\ \A r \in Dispatched : r.sender # ev.req.sender)
       => ParkedLast(k)

\* C2's case: a sender that was served pulls again before the reset
C2_Witness ==
  \E k \in Keys :
    /\ ev.op = "pull" /\ ev.key = k
    /\ ~served[k].closed
    /\ served[k].cnt[ev.req.sender] = 1
    /\ ParkedLast(k)

\* C3: in sync, non-blocking mode with lockstep workers, a pull response of
\* step t is dispatched only after the engine has executed the COPY_FIRST, the
\* N-1 SUM_RECV and the ALL_RECV of step t
C3_PullAfterMerge ==
  \A r \in Dispatched :
    r.step >= 1 =>
      /\ r.exec.copy >= r.step
      /\ r.exec.sum >= (NumWorkers - 1) * r.step
      /\ r.exec.all >= r.step

\* C3's case: the handler answers a pull of the second step
C3_Witness ==
  /\ ev.op = "pull"
  /\ \E r \in Dispatched : r.step = 2 /\ r.exec.all = 2

\* the shard counters of a key are in their reset state
CountersReset(k) ==
  LET tid == GetThreadID(k)
  IN /\ ~PushFinished(tid, k)
     /\ pull_cnt_[tid][k] = 0
     /\ seen_sender_[tid][k] = {}

\* a step took one of the three counters of a key back to its reset value
CountersGoBack(k) ==
  LET tid == GetThreadID(k)
  IN \/ PushFinished(tid, k) /\ ~PushFinished(tid, k)'
     \/ pull_cnt_[tid][k] > 0 /\ pull_cnt_'[tid][k] = 0
     \/ seen_sender_[tid][k] # {} /\ seen_sender_'[tid][k] = {}

\* C4: right after the N-th pull response of a step is dispatched (handler or
\* ALL_RECV flush) is_push_finished is false, pull_cnt is 0 and seen_senders
\* is empty, and the three go back only with the N-th pull response
C4_ResetOnNthPull ==
  /\ [](\A k \in Keys :
          (ev.key = k /\ ev.pulled # <<>> /\ npullresp[k] % NumWorkers = 0)
            => CountersReset(k))
  /\ [][\A k \in Keys :
          CountersGoBack(k) =>
            /\ npullresp'[k] > npullresp[k]
            /\ npullresp'[k] % NumWorkers = 0]_vars

\* C4's case: the N-th pull response of a step was just dispatched
C4_Witness ==
  \E k \in Keys :
    /\ ev.key = k /\ ev.pulled # <<>>
    /\ npullresp[k] = NumWorkers
    /\ CountersReset(k)

\* C5: with lockstep workers and fair strands every pull is answered in the
\* end, and a parked pull is answered by the ALL_RECV of its own step
C5_EveryPullAnswered ==
  /\ \A w \in Workers :
       (wstate[w].pc = "pullwait") ~> (wstate[w].pc # "pullwait")
  /\ [](ev.op = "flush" => \A r \in Dispatched : r.exec.all = r.step)

\* C5's case: the ALL_RECV flush answers a parked pull of the second step
C5_Witness ==
  /\ ev.op = "flush"
  /\ \E r \in Dispatched : r.step = 2

\* C6: the StoredBuffer of a key is allocated, and init pushes are
\* acknowledged, only when N init pushes were received, and then each of the
\* N is acknowledged once
C6_InitAfterNPushes ==
  \A k \in Keys :
    /\ store_[k].tensor # NULL => initlog[k].n >= NumWorkers
    /\ initlog[k].acks > 0 => initlog[k].n >= NumWorkers
    /\ store_[k].tensor # NULL => initlog[k].acks = NumWorkers

\* the engine messages of one step of a key, in the order of their enqueue
StepOps ==
  <<"COPY_FIRST">> \o [i \in 1..(NumWorkers - 1) |-> "SUM_RECV"]
                   \o <<"ALL_RECV">>

\* C7: in sync, non-blocking mode, between two ALL_RECV of a key the handler
\* enqueues one COPY_FIRST, then N-1 SUM_RECV, and the ALL_RECV comes with the
\* N-th data push
C7_OneCopyThenSums ==
  \A k \in Keys :
    /\ Len(enqlog[k]) <= Len(StepOps)
    /\ enqlog[k] = SubSeq(StepOps, 1, Len(enqlog[k]))

\* C8: the pending request sequence of a key never holds more than N entries,
\* and a handler call that brings it to N entries empties it before it returns
C8_PendingBelowN ==
  \A k \in Keys :
    /\ Len(update_buf_[k].request) < NumWorkers
    /\ ev.key = k => ev.peak <= NumWorkers

\* C8's case: a handler call brought the sequence to N entries
C8_Witness ==
  \E k \in Keys :
    /\ ev.key = k /\ ev.op = "push" /\ ev.peak = NumWorkers
    /\ update_buf_[k].request = <<>>

\* C9: in async mode or in blocking mode a pull of an initialized key is
\* answered inside the handler call, without abort, with the stored tensor
C9_PullAnsweredAtOnce ==
  \A k \in Keys :
    (/\ ev.op = "pull" /\ ev.key = k
     /\ ~sync_mode_ \/ is_engine_blocking_
     /\ store_[k].tensor # NULL)
    => /\ ~aborted
       /\ Len(ev.pulled) = 1
       /\ ev.pulled[1].vals = store_[k].tensor

\* C10: in async mode a data push of an initialized key is summed into the
\* stored tensor inside the handler call, acknowledged once, enqueues no
\* engine message and leaves the pending request sequence empty
C10_AsyncPushInline ==
  [][\A k \in Keys :
       (~sync_mode_ /\ ev'.op = "push" /\ ev'.key = k)
       => /\ ~aborted'
          /\ store_'[k].tensor = sum(store_[k].tensor, ev'.recved)
          /\ ev'.acked = <<ev'.req>>
          /\ ev'.enq = <<>>
          /\ engine_queues_' = engine_queues_
          /\ update_buf_'[k].request = <<>>]_vars

\* C11: in blocking mode (sync), no data push enqueues a message on an engine
\* shard queue: the handler call itself copies, sums and seals, so it enqueues
\* nothing, leaves every queue as it was and does not abort
C11_BlockingNoEnqueue ==
  [][(sync_mode_ /\ is_engine_blocking_ /\ ev'.op = "push")
       => /\ ev'.enq = <<>>
          /\ engine_queues_' = engine_queues_
          /\ timestamp_' = timestamp_
          /\ ~aborted']_vars

\* C12: the compressor installed by the first config push of a key is never
\* replaced or removed: the first config push installs the compressor its
\* kwargs construct, and no later step changes the key's entry
C12_CompressorNeverReplaced ==
  [][\A k \in Keys :
       /\ compressor_map_[k] # NoCompressor
            => compressor_map_'[k] = compressor_map_[k]
       /\ (/\ compressor_map_[k] = NoCompressor
           /\ ev'.op = "config" /\ ev'.key = k)
            => compressor_map_'[k] = ev'.recved]_vars

\* C12's case: a config push with other kwargs than the installed compressor's
C12_Witness ==
  \E k \in Keys :
    /\ ev.op = "config" /\ ev.key = k
    /\ cfglog[k].n >= 2
    /\ compressor_map_[k] # NoCompressor /\ compressor_map_[k] # ev.recved

\* C13: no config push is acknowledged until N config pushes of the key were
\* received, and the N-th acknowledges the N config requests, and only those,
\* once each
C13_ConfigAckAfterN ==
  \A k \in Keys :
    /\ cfglog[k].acks <= cfglog[k].n
    /\ cfglog[k].acks % NumWorkers = 0
    /\ cfglog[k].acks = NumWorkers * (cfglog[k].n \div NumWorkers)
    /\ (ev.op = "config" /\ ev.key = k /\ ev.acked # <<>>)
         => /\ Len(ev.acked) = NumWorkers
            /\ \A i \in DOMAIN ev.acked : ev.acked[i].rtype = "config"

\* C14: a request of type RowSparsePushPull, or of an unrecognized type,
\* aborts the server; it gets no response and changes no per-key state
C14_UnservedTypeAborts ==
  [][(nreq' = nreq + 1 /\ ev'.req.rtype \notin Served_Types)
       => /\ aborted'
          /\ ev'.acked = <<>> /\ ev'.pulled = <<>>
          /\ UNCHANGED <<storevars, queuevars, flagvars, push_response_map_,
                         pull_response_map_>>]_vars

\* C14's case: a row-sparse request for an initialized key stopped the server
C14_Witness ==
  /\ aborted
  /\ ev.req.rtype = "rowsparse"
  /\ store_[ev.key].tensor # NULL

\* C15: in every mode a pull of a key whose StoredBuffer is not allocated
\* aborts the server; it is not parked and not answered
C15_PullBeforeInitAborts ==
  [][\A k \in Keys :
       (/\ nreq' = nreq + 1
        /\ ev'.op = "pull" /\ ev'.key = k
        /\ store_[k].tensor = NULL)
       => /\ aborted'
          /\ ev'.pulled = <<>>
          /\ q_pull_reqmeta_' = q_pull_reqmeta_
          /\ pull_response_map_' = pull_response_map_]_vars

\* C15's case: a pull arrived after one init push, before the allocation
C15_Witness ==
  \E k \in Keys :
    /\ aborted
    /\ ev.op = "pull" /\ ev.key = k
    /\ initlog[k].n = 1 /\ store_[k].tensor = NULL

\* the shards that hold, or have held, engine work or pull bookkeeping of key k
ShardsOf(k) ==
  {i \in Shards :
     \/ \E n \in DOMAIN engine_queues_[i] : engine_queues_[i][n].key = k
     \/ engine_msg[i] # NoMsg /\ engine_msg[i].key = k
     \/ k \in DOMAIN is_push_finished_[i]
     \/ q_pull_reqmeta_[i][k] # <<>>
     \/ pull_cnt_[i][k] # 0
     \/ seen_sender_[i][k] # {}}

\* strand i takes the message at the head of its queue
Pops(i) ==
  /\ engine_queues_[i] # <<>>
  /\ engine_queues_'[i] = Tail(engine_queues_[i])

\* C16: in sync, non-blocking mode with FIFO queues all engine messages of a
\* key are on one shard queue, that shard is the one whose counters and parked
\* pulls the handler uses for the key, and the strand executes the key's
\* messages in the order of their enqueue: when it takes a message, no message
\* of the key enqueued earlier is still waiting anywhere
C16_OneShardInOrder ==
  /\ [](\A k \in Keys : Cardinality(ShardsOf(k)) <= 1)
  /\ [][\A i \in Shards :
          Pops(i) =>
            \A j \in Shards : \A n \in DOMAIN engine_queues_'[j] :
              engine_queues_'[j][n].key = Head(engine_queues_[i]).key
                => engine_queues_'[j][n].timestamp
                     > Head(engine_queues_[i]).timestamp]_vars

\* C16's case: the strand of the key's shard ran the step's messages and its
\* flush answered a pull the handler had parked on that shard
C16_Witness ==
  \E k \in Keys :
    /\ ev.op = "flush" /\ ev.key = k /\ ev.pulled # <<>>
    /\ executed[k].copy >= 1 /\ executed[k].sum >= 1
    /\ Cardinality(ShardsOf(k)) = 1

\* the TERMINATE messages waiting on shard i's queue
Sentinels(i) ==
  Cardinality({n \in DOMAIN engine_queues_[i] :
                 engine_queues_[i][n].ops = "TERMINATE"})

\* C17: at shutdown in sync mode one TERMINATE message is pushed to every
\* shard queue; every strand executes all messages enqueued before its
\* sentinel (none of them stops the server), then exits with nothing left on
\* its queue, and byteps_server() in the end joins all strands and returns
C17_DrainThenReturn ==
  /\ [](main_pc \in {"join", "free", "returned"}
          => \A i \in Shards :
               Sentinels(i) = (IF engine_alive[i] THEN 1 ELSE 0))
  /\ [](\A i \in Shards :
          (main_pc # "serving" /\ ~engine_alive[i])
            => engine_queues_[i] = <<>> /\ engine_msg[i] = NoMsg)
  /\ [](main_pc # "serving" => ~aborted)
  /\ (main_pc = "finalized") ~> (main_pc = "returned")

\* C18: no StoredBuffer or fp16 copy is freed while an engine strand is still
\* running: the buffers are freed only once every strand has taken its
\* TERMINATE and was joined, and no engine step runs on a freed buffer
C18_FreeAfterJoin ==
  /\ freed # {} => \A i \in Shards : ~engine_alive[i]
  /\ ev.op \in {"engine", "flush", "terminate"} => freed = {}
  /\ freed # {} => main_pc = "returned"

\* C18's case: the buffers are freed after a strand has drained engine
\* messages that were still queued when the shutdown began
C18_Witness ==
  \E k \in Keys :
    /\ <<"store", k>> \in freed
    /\ main_pc = "returned"
    /\ executed[k].copy >= 1
    /\ \A i \in Shards : ~engine_alive[i]

\* C20: for every word type T of 8, 16, 32 or 64 bits and every bit sequence
\* B, after Put of each bit of B in order and one Flush, |B| calls of
\* BitReader<T>::Get on the same array return B bit for bit
C20_ReadReturnsWritten ==
  (codec.pc = "done" /\ codec.mode = "bits") => codec.out = codec.input

\* C19: for every x >= 1 and every word type T, EliasDeltaDecode of the bits
\* written by EliasDeltaEncode and a Flush returns x; n numbers encoded back to
\* back into one writer are decoded in order by n decodes, which consume
\* exactly the bits written
C19_EliasRoundTrip ==
  (codec.pc = "done" /\ codec.mode = "elias") =>
    /\ codec.out = codec.input
    /\ ReaderBits(codec.rd) = WriterBits(codec.wr)
RECURSIVE WordBits(_)
\* the bits of the words of an array, in the order of the array, each word
\* from its most significant bit down
WordBits(dptr) == IF dptr = <<>> THEN <<>> ELSE Head(dptr) \o WordBits(Tail(dptr))

\* C21: after any sequence of Put calls and a Flush, BitWriter::bits() is the
\* number of Put calls, every filled word holds its bits MSB first, and the
\* last, partial word holds the remaining bits in its high-order positions
\* with every lower bit zero
C21_WriterLayout ==
  (codec.mode = "bits" /\ codec.pc \in {"read", "done"}) =>
    LET n == Len(codec.input)
        words == (n + codec.w - 1) \div codec.w
    IN /\ WriterBits(codec.wr) = n
       /\ Len(codec.wr.dptr) = words
       /\ WordBits(codec.wr.dptr) = codec.input \o ZeroBits(words * codec.w - n)

\* a filled word and a partial word with a one in it have been flushed
C21_Witness ==
  /\ codec.mode = "bits" /\ codec.pc = "read"
  /\ codec.wr.blocks = 1 /\ codec.wr.used_bits > 0
  /\ codec.input[Len(codec.input)] = 1
  /\ codec.input[1] = 1
\* the map has only non-empty strings without whitespace
Tokenized(kwargs) ==
  \A k \in DOMAIN kwargs : IsToken(k) /\ IsToken(kwargs[k])

\* C22: for every kwargs map whose keys and values are non-empty strings
\* without whitespace, Deserialize(Serialize(kwargs)) is kwargs, and Serialize
\* writes the count, then each key and its value, separated by single spaces
C22_KwargsRoundTrip ==
  (lib.pc = "deserialized" /\ Tokenized(lib.kwargs)) =>
    /\ lib.out = lib.kwargs
    /\ Words(lib.content) =
         <<ToChars(Len(lib.order))>>
           \o [i \in 1..(2 * Len(lib.order)) |->
                 IF i % 2 = 1 THEN lib.order[(i + 1) \div 2]
                 ELSE lib.kwargs[lib.order[i \div 2]]]
    /\ Len(lib.content) =
         Len(ToChars(Len(lib.order))) + 2 * Len(lib.order)
           + Len(WordBits(Tail(Words(lib.content))))

\* two pairs, one key made of digits, went through the round trip
C22_Witness ==
  /\ lib.pc = "deserialized" /\ Tokenized(lib.kwargs)
  /\ Cardinality(DOMAIN lib.kwargs) = 2
  /\ <<"1">> \in DOMAIN lib.kwargs
  /\ DOMAIN lib.out = DOMAIN lib.kwargs
\* C24: HyperParamFinder aborts when the parameter is absent and optional is
\* false, and when the parameter is present and its parsed value fails the
\* predicate; absent and optional, it returns the zero of T and does not
\* evaluate the predicate; otherwise it returns the parsed value
C24_HyperParamFinder ==
  lib.pc = "found" =>
    LET present == lib.name \in DOMAIN lib.kwargs
        parsed == ParseValue(lib.T, lib.kwargs[lib.name])
    IN /\ (~present /\ ~lib.optional) => lib.res.fatal
       /\ (~present /\ lib.optional) =>
            ~lib.res.fatal /\ lib.res.value = 0 /\ ~lib.res.checked
       /\ (present /\ ~Check(lib.check, parsed)) => lib.res.fatal
       /\ (present /\ Check(lib.check, parsed)) =>
            ~lib.res.fatal /\ lib.res.value = parsed

\* a value that is present and fails its predicate was looked up
C24_Witness ==
  /\ lib.pc = "found" /\ lib.res.fatal /\ lib.res.checked
  /\ lib.name \in DOMAIN lib.kwargs /\ lib.check = "nonzero"
\* the leading count is missing or not a number, or it is larger than the
\* number of key/value pairs that follow
Malformed(content) ==
  LET words == Words(content)
  IN \/ words = <<>>
     \/ \E i \in DOMAIN Head(words) : ~IsDigit(Head(words)[i])
     \/ Number(Head(words), 0) > (Len(words) - 1) \div 2

\* C23: a config push whose kwargs blob is malformed is a fatal error at
\* registration: the first such push aborts the server and no compressor is
\* installed for the key
C23_MalformedKwargsFatal ==
  (lib.pc = "config" /\ Malformed(lib.content)) =>
    /\ \A k \in Keys : compressor_map_[k] = NoCompressor
    /\ nreq > 0 => aborted
\* the locks the thread holds before the p-th event of a program
Held(prog, p) ==
  {m \in {prog[q].obj : q \in 1..(p - 1)} :
     \E q \in 1..(p - 1) :
       /\ prog[q] = Lock(m)
       /\ \A r \in (q + 1)..(p - 1) : prog[r] # Unlock(m)}

\* the level of a lock in the order of the specification
SpecLevel(m) ==
  CASE m[1] = "store_mu_" -> 1
    [] m[1] = "update_mu_" -> 2
    [] m[1] = "fp16_mu_" -> 3
    [] m[1] = "handle_mu_" -> 4
    [] m[1] = "flag_mu_" -> 5
    [] m[1] = "pullresp_mu_" -> 6

\* the level of a lock in the order the code follows: handle_mu_, then the
\* shard's flag_mu_, then pullresp_mu_, then the three accessor locks
CodeLevel(m) ==
  CASE m[1] = "handle_mu_" -> 1
    [] m[1] = "flag_mu_" -> 2
    [] m[1] = "pullresp_mu_" -> 3
    [] m[1] \in {"store_mu_", "update_mu_", "fp16_mu_"} -> 4

\* every lock is taken while the locks held are of a lower level only
Ascending(Level(_), prog) ==
  \A p \in DOMAIN prog :
    prog[p].op = "lock" =>
      \A h \in Held(prog, p) : Level(h) < Level(prog[p].obj)

\* C25 as stated: no thread acquires a lock while it holds a lock of a lower
\* level in the order store_mu < update_mu < fp16_mu < handle_mu < flag_mu[i]
\* < pullresp_mu, and no thread holds two locks of one level
C25_NeverUpward ==
  \A p \in DOMAIN sync.prog :
    sync.prog[p].op = "lock" =>
      \A h \in Held(sync.prog, p) :
        SpecLevel(h) > SpecLevel(sync.prog[p].obj)

\* C25 amended: every thread takes its locks in the order handle_mu, then
\* flag_mu[i], then pullresp_mu, then one of store_mu, update_mu, fp16_mu: it
\* acquires a lock only while every lock it holds comes earlier in that
\* order, and so never holds two locks of one level
C25_CodeOrder == Ascending(CodeLevel, sync.prog)

\* the handler serves a pull under handle_mu, the shard's flag_mu and
\* pullresp_mu
C25_Witness ==
  /\ sync.thread = <<"handler", 0>>
  /\ \E p \in DOMAIN sync.prog :
       /\ sync.prog[p] = Lock(Global("pullresp_mu_"))
       /\ Cardinality(Held(sync.prog, p)) = 2

\* C26: every access to the key-to-UpdateState map, by the handler or by an
\* engine strand, is made while the accessing thread holds update_mu
C26_UpdateMapUnderLock ==
  \A p \in DOMAIN sync.prog :
    sync.prog[p] = Access("update_buf_") =>
      Global("update_mu_") \in Held(sync.prog, p)
\* a strand takes the ALL_RECV message of key k from its queue in this step
TakesAllRecv(k) ==
  LET i == GetThreadID(k)
  IN /\ sync'.thread = <<"engine", i>>
     /\ engine_msg[i] = NoMsg /\ engine_queues_[i] # <<>>
     /\ Head(engine_queues_[i]).ops = "ALL_RECV"
     /\ Head(engine_queues_[i]).key = k
     /\ ev'.op = "engine"

\* C27: when the engine executes ALL_RECV for a key, the merged view of the
\* key is afterwards the compressor's output if a compressor is registered
\* (also for a mixed-precision key), else the Fp16Copy buffer and its length
\* if the message is mixed-precision, else the stored tensor and its length;
\* every pull response carries the pointer and length of the merged view, on
\* first use and on reuse of the memoized response
C27_MergedView ==
  [][\A k \in Keys :
       /\ (TakesAllRecv(k) /\ ~aborted') =>
            LET merged == update_buf_'[k].merged
            IN IF compressor_map_[k] # NoCompressor
                 THEN /\ merged.tensor = "fp16"
                      /\ merged.len = ByteLen(fp16_copy_'[k].tensor)
                      /\ fp16_copy_'[k].tensor = Compress(store_[k].tensor)
               ELSE IF Head(engine_queues_[GetThreadID(k)]).mixed_precision
                 THEN /\ merged.tensor = "fp16"
                      /\ merged.len = fp16_copy_[k].len
               ELSE /\ merged.tensor = "stored"
                    /\ merged.len = store_[k].len
       /\ \A j \in DOMAIN ev'.pulled :
            ev'.pulled[j].key = k =>
              /\ ev'.pulled[j].ptr = update_buf_[k].merged.tensor
              /\ ev'.pulled[j].len = update_buf_[k].merged.len
              /\ pull_response_map_'[k] =
                   [present |-> TRUE, ptr |-> update_buf_[k].merged.tensor,
                    len |-> update_buf_[k].merged.len]]_vars

\* a pull of a mixed-precision key with a compressor was answered from the
\* compressor's output
C27_Witness ==
  \E k \in Keys :
    /\ ev.pulled # <<>> /\ ev.key = k
    /\ compressor_map_[k] # NoCompressor
    /\ fp16_copy_[k].dtype = "f16"
    /\ ev.pulled[1].ptr = "fp16" /\ ev.pulled[1].len = ByteLen(fp16_copy_[k].tensor)

\* C28: whenever the engine executes ALL_RECV for a key with a registered
\* compressor, the output tensor handed to Compress is the key's allocated
\* Fp16Copy buffer, whatever the data type of the key
C28_CompressIntoFp16Copy ==
  [][\A k \in Keys :
       (TakesAllRecv(k) /\ compressor_map_[k] # NoCompressor)
         => fp16_copy_[k].tensor # NULL]_vars
\* C29: each UpdateGradient call reads the rate r from lr.s, adds
\* (prev_lr / r) times the error buffer to the gradient, prev_lr being the
\* rate the previous call (or the constructor) read, and leaves prev_lr = r;
\* the scale of call i is r(i-1)/r(i), and is 1 whenever the rate did not
\* change
C29_ScaleSequence ==
  lib.pc = "cef" =>
    /\ lib._pre_lr = lib.rates[Len(lib.rates)]
    /\ Len(lib.rates) = Len(lib.scales) + 1
    /\ \A i \in DOMAIN lib.scales :
         /\ lib.scales[i] = RDiv(lib.rates[i], lib.rates[i + 1])
         /\ lib.rates[i] = lib.rates[i + 1] => lib.scales[i] = One
    /\ lib.scales # <<>> =>
         lib.grad = [j \in DOMAIN lib.arg |->
                       RAdd(lib.arg[j],
                            RMul(lib.scales[Len(lib.scales)], lib._buf[j]))]

\* C30: each Compress call of the momentum compressor makes the momentum
\* m' = mu*m + g, then the gradient g' = g + mu*m', then calls the inner
\* Compress on g'; the momentum carries over between the calls, and
\* Decompress calls the inner Decompress and leaves the momentum alone
C30_MomentumOrder ==
  (lib.pc = "momentum" /\ lib.inner # <<>>) =>
    LET last == lib.inner[Len(lib.inner)]
    IN /\ last.fn = "Compress" =>
            /\ lib._buf = [j \in DOMAIN lib.arg |->
                             RAdd(RMul(lib._mu, lib.before[j]), lib.arg[j])]
            /\ lib.grad = [j \in DOMAIN lib.arg |->
                             RAdd(lib.arg[j], RMul(lib._mu, lib._buf[j]))]
            /\ last.arg = lib.grad
       /\ last.fn = "Decompress" =>
            /\ lib._buf = lib.before
            /\ last.arg = lib.arg

\* the second Compress call started from a momentum the first one left, with
\* a mu that is neither 0 nor 1, and changed it
C30_Witness ==
  /\ lib.pc = "momentum" /\ Len(lib.inner) = 2
  /\ lib.inner[1].fn = "Compress" /\ lib.inner[2].fn = "Compress"
  /\ lib._mu = Norm(1, 2)
  /\ lib.before # Zeros /\ lib._buf # lib.before
  /\ lib.grad # lib.arg
\* C31: for every key and shard, while the shard's flag_mu_ is free (between
\* the steps): pull_cnt_ is the number of elements of seen_sender_, it is
\* below the number of workers, and when is_push_finished_ is false the
\* count is 0 and seen_sender_ is empty
C31_PullCount ==
  \A i \in Shards, k \in Keys :
    /\ pull_cnt_[i][k] = Cardinality(seen_sender_[i][k])
    /\ pull_cnt_[i][k] < NumWorkers
    /\ (~(k \in DOMAIN is_push_finished_[i] /\ is_push_finished_[i][k])) =>
         (pull_cnt_[i][k] = 0 /\ seen_sender_[i][k] = {})

\* a strand answered one parked pull of a finished push and waits for the
\* pulls of the other workers
C31_Witness ==
  \E i \in Shards, k \in Keys :
    /\ ev.op = "flush" /\ ev.key = k /\ Len(ev.pulled) = 1
    /\ k \in DOMAIN is_push_finished_[i] /\ is_push_finished_[i][k]
    /\ pull_cnt_[i][k] = 1
    /\ seen_sender_[i][k] = {ev.pulled[1].sender}
\* thread t is at a lock that thread u holds
WaitsFor(t, u) ==
  /\ lib.prog[t] # <<>>
  /\ Head(lib.prog[t]).op = "lock"
  /\ Head(lib.prog[t]).obj \in lib.held[u]

\* C32: the handler thread and the engine strands never deadlock: in no
\* reachable state is there a set of threads each of which waits for a lock
\* (handle_mu_, store_mu_, update_mu_, fp16_mu_, flag_mu_[i], pullresp_mu_)
\* held by a thread of the set; so never is every runnable thread waiting
\* for a lock that another waiting thread holds
C32_NoDeadlock ==
  lib.pc = "locks" =>
    /\ \A S \in (SUBSET Threads) \ {{}} :
         ~(\A t \in S : \E u \in S : WaitsFor(t, u))
    /\ \A t \in Threads : ~WaitsFor(t, t)

\* the handler waits inside a pull for flag_mu_[i], which strand i holds
\* while it answers a parked pull under pullresp_mu_
C32_Witness ==
  /\ lib.pc = "locks"
  /\ \E i \in Shards :
       /\ WaitsFor(<<"handler", 0>>, <<"engine", i>>)
       /\ Head(lib.prog[<<"handler", 0>>]).obj = flag_mu_(i)
       /\ Global("handle_mu_") \in lib.held[<<"handler", 0>>]
       /\ lib.held[<<"engine", i>>] = {flag_mu_(i), Global("pullresp_mu_")}
\* C33: the handler's insertion of a compressor into compressor_map_ (on a
\* config push) never runs at the same time as a strand's lookup in the map:
\* the handler is never at the insertion while a strand is at its lookup,
\* a lock that both take keeps the two apart
C33_InsertApartFromLookup ==
  lib.pc = "locks" =>
    \A i \in Shards :
      ~(/\ lib.prog[<<"handler", 0>>] # <<>>
        /\ Head(lib.prog[<<"handler", 0>>]) = Insert("compressor_map_")
        /\ lib.prog[<<"engine", i>>] # <<>>
        /\ Head(lib.prog[<<"engine", i>>]) = Access("compressor_map_"))
\* C34: during shutdown no strand executes a reducer operation or dispatches
\* a pull response after byteps_server() has deleted the reducer or the
\* transport server: both objects exist as long as a strand has not taken
\* its TERMINATE
C34_ServicesOutliveStrands ==
  /\ (ev.op = "engine" /\ ev.key \in Keys) => bps_reducer_
  /\ (ev.op = "flush" /\ ev.pulled # <<>>) => byteps_server_
  /\ (\E i \in Shards : engine_alive[i]) => (bps_reducer_ /\ byteps_server_)
\* C35: in the server build every UpdateGradient call of the sparse error
\* feedback writes only gradient elements with an index below the element
\* count of the gradient, reads and zeroes only error elements with an index
\* below that count, for every k the registration accepts, and leaves the
\* list of selected indices empty
C35_SparseInBounds ==
  (lib.pc = "sparse" /\ lib.calls > 0) =>
    LET len == lib.size \div getDataTypeLength
    IN /\ \A i \in lib.written : i < len
       /\ \A i \in lib.touched : i < len
       /\ lib._selected_idx = <<>>
====
